---- MODULE Spec2Model ----
(***************************************************************************)
(* The WhatsApp sales import of the Kokari Cafe dashboard                  *)
(* (src/dashboard.py): the parser parse_whatsapp_sales with its helpers    *)
(* best_match and parse_items, the review screen of main() and the commit  *)
(* save_parsed_orders.                                                     *)
(*                                                                         *)
(* Text is a sequence of one-character strings.  Glyphs outside ASCII are  *)
(* written by their code point ("U+2705" is the check mark).  Money values *)
(* are integers, a quantity is a reduced fraction [n, d] and a cost ratio  *)
(* is a number of hundredths; Python's round() is round-half-to-even.      *)
(***************************************************************************)
EXTENDS Integers, Sequences, FiniteSets, TLC

\* ------------------------------------------------------------------------
\* Characters and Python string methods
\* ------------------------------------------------------------------------
UpperCase ==
  <<"A","B","C","D","E","F","G","H","I","J","K","L","M",
    "N","O","P","Q","R","S","T","U","V","W","X","Y","Z">>

LowerCase ==
  <<"a","b","c","d","e","f","g","h","i","j","k","l","m",
    "n","o","p","q","r","s","t","u","v","w","x","y","z">>

Digits == <<"0","1","2","3","4","5","6","7","8","9">>

UpperSet == {UpperCase[k] : k \in 1..26}

LowerSet == {LowerCase[k] : k \in 1..26}

DigitSet == {Digits[k] : k \in 1..10}

\* the punctuation and glyphs that occur in the messages of the model
OtherChars ==
  {" ", "\n", ",", "#", "-", "(", ")", "+", "&", ".", ":", "*", "/", "_",
   "U+2705", "U+2611", "U+2713", "U+FE0F", "U+2013", "U+2014"}

Chars == UpperSet \cup LowerSet \cup DigitSet \cup OtherChars

\* \s of the re module
WS == {" ", "\n"}

\* \w of the re module
WordChars == UpperSet \cup LowerSet \cup DigitSet \cup {"_"}

ToLower == [c \in UpperSet |-> LowerCase[CHOOSE k \in 1..26 : UpperCase[k] = c]]

ToUpper == [c \in LowerSet |-> UpperCase[CHOOSE k \in 1..26 : LowerCase[k] = c]]

DigitVal == [c \in DigitSet |-> (CHOOSE k \in 1..10 : Digits[k] = c) - 1]

Max(S) == CHOOSE x \in S : \A y \in S : y <= x

Min(S) == CHOOSE x \in S : \A y \in S : x <= y

\* the greatest (least) element of a set of offsets, or d when it is empty
MaxOr(S, d) == IF S = {} THEN d ELSE Max(S)

MinOr(S, d) == IF S = {} THEN d ELSE Min(S)

\* the offset off after pos; -1 stays -1
Shift(pos, off) == IF off = -1 THEN -1 ELSE pos + off

\* str.lower()
Lower(s) == [i \in 1..Len(s) |-> IF s[i] \in UpperSet THEN ToLower[s[i]] ELSE s[i]]

\* str.title(): a letter that follows a non-letter is upper-cased, the others lower-cased
Title(s) ==
  [i \in 1..Len(s) |->
     LET c == s[i]
         first == i = 1 \/ s[i - 1] \notin (UpperSet \cup LowerSet)
     IN  IF c \in LowerSet THEN (IF first THEN ToUpper[c] ELSE c)
         ELSE IF c \in UpperSet THEN (IF first THEN c ELSE ToLower[c])
         ELSE c]

\* str.strip(chars): cs is the set of characters stripped from both ends
StripSet(s, cs) ==
  LET keep == {i \in 1..Len(s) : s[i] \notin cs}
  IN  IF keep = {} THEN <<>> ELSE SubSeq(s, Min(keep), Max(keep))

\* str.strip()
Strip(s) == StripSet(s, WS)

\* a in s, for strings
IsSubstr(a, s) ==
  \E i \in 0..(Len(s) - Len(a)) : \A k \in 1..Len(a) : s[i + k] = a[k]

\* the word w starts at offset pos of s
StartsAt(s, pos, w) ==
  /\ pos + Len(w) <= Len(s)
  /\ \A k \in 1..Len(w) : s[pos + k] = w[k]

\* the length of the longest run of characters of cs that starts at offset pos of s
RECURSIVE RunLen(_, _, _)
RunLen(s, pos, cs) ==
  IF pos < Len(s) /\ s[pos + 1] \in cs THEN 1 + RunLen(s, pos + 1, cs) ELSE 0

\* re.sub(r"\s+", " ", s)
RECURSIVE CollapseWS(_)
CollapseWS(s) ==
  IF s = <<>> THEN <<>>
  ELSE IF s[1] \in WS
       THEN <<" ">> \o CollapseWS(SubSeq(s, RunLen(s, 0, WS) + 1, Len(s)))
       ELSE <<s[1]>> \o CollapseWS(Tail(s))

\* str.split(sep) and re.split("[...]", s) for a set of one-character separators
RECURSIVE SplitOn(_, _)
SplitOn(s, seps) ==
  LET cut == {i \in 1..Len(s) : s[i] \in seps}
  IN  IF cut = {} THEN <<s>>
      ELSE <<SubSeq(s, 1, Min(cut) - 1)>> \o SplitOn(SubSeq(s, Min(cut) + 1, Len(s)), seps)

\* s.replace(",", "")
RECURSIVE RemoveChar(_, _)
RemoveChar(s, c) ==
  IF s = <<>> THEN <<>>
  ELSE IF s[1] = c THEN RemoveChar(Tail(s), c)
  ELSE <<s[1]>> \o RemoveChar(Tail(s), c)

\* ------------------------------------------------------------------------
\* Numbers
\* ------------------------------------------------------------------------
RECURSIVE GCD(_, _)
GCD(a, b) == IF b = 0 THEN a ELSE GCD(b, a % b)

\* the fraction n/d in lowest terms (d > 0, n >= 0)
Frac(n, d) == LET g == GCD(n, d) IN [n |-> n \div g, d |-> d \div g]

\* Python's round() of the non-negative number num/den: half to even
Round(num, den) ==
  LET q == num \div den
      r == num % den
  IN  IF 2 * r < den THEN q
      ELSE IF 2 * r > den THEN q + 1
      ELSE IF q % 2 = 0 THEN q ELSE q + 1

\* floor(log2(n)) for n >= 1
RECURSIVE Log2(_)
Log2(n) == IF n < 2 THEN 0 ELSE 1 + Log2(n \div 2)

RECURSIVE Pow2(_)
Pow2(k) == IF k = 0 THEN 1 ELSE 2 * Pow2(k - 1)

\* the bits of the binary64 significand after the leading one: n steps of the
\* long division by D from remainder r; odd is the last bit produced
RECURSIVE DivBits(_, _, _, _)
DivBits(r, D, n, odd) ==
  IF n = 0 THEN [r |-> r, odd |-> odd]
  ELSE IF 2 * r >= D THEN DivBits(2 * r - D, D, n - 1, TRUE)
  ELSE DivBits(2 * r, D, n - 1, FALSE)

\* the float a / b for integers a, b >= 1, as its distance from the exact
\* quotient: eq is floor(log2(a / b)), the float is the quotient rounded to 53
\* bits (ties to even), "up" tells the direction and the distance is
\* (rem / D) * 2^(eq - 52)
FloatQuotient(a, b) ==
  LET eq == IF a >= b THEN Log2(a \div b) ELSE -(Log2((b - 1) \div a) + 1)
      N == IF eq >= 0 THEN a ELSE a * Pow2(-eq)
      D == IF eq >= 0 THEN b * Pow2(eq) ELSE b
      q == DivBits(N - D, D, 52, TRUE)
      up == 2 * q.r > D \/ (2 * q.r = D /\ q.odd)
  IN  [eq |-> eq, D |-> D, up |-> up, rem |-> IF up THEN D - q.r ELSE q.r]

\* round(p * (a / b)) when p * a / b is exactly k + 1/2: the float product is
\* k + 1/2 unless the error of the float a / b, times p, exceeds half the
\* spacing of the floats at k + 1/2; then it lies on the side of the error
RoundHalfProduct(p, k, f) ==
  LET e == Log2(2 * k + 1) - 1
      g == IF k = 0 /\ ~f.up THEN e - f.eq - 2 ELSE e - f.eq - 1
      far == IF g < 0 THEN p * f.rem * Pow2(-g) > f.D
             ELSE IF g >= 30 THEN FALSE
             ELSE (p * f.rem) \div Pow2(g) >= f.D /\ p * f.rem > f.D * Pow2(g)
  IN  IF ~far THEN Round(2 * k + 1, 2)
      ELSE IF f.up THEN k + 1 ELSE k

\* Python's round(p * (a / b)) for integers p, a >= 0 and b >= 1, the
\* quotient and the product computed in binary64
RoundProduct(p, a, b) ==
  IF p = 0 \/ a = 0 THEN 0
  ELSE IF (2 * p * a) % b = 0 /\ ((2 * p * a) \div b) % 2 = 1
  THEN RoundHalfProduct(p, (p * a) \div b, FloatQuotient(a, b))
  ELSE Round(p * a, b)

\* the value of a string of decimal digits
RECURSIVE DigitsToNat(_)
DigitsToNat(s) ==
  IF s = <<>> THEN 0 ELSE 10 * DigitsToNat(SubSeq(s, 1, Len(s) - 1)) + DigitVal[s[Len(s)]]

RECURSIVE Pow10(_)
Pow10(k) == IF k = 0 THEN 1 ELSE 10 * Pow10(k - 1)

\* float("12.5"): the value of digits, optionally followed by "." and digits
ParseDecimal(s) ==
  LET dot == {i \in 1..Len(s) : s[i] = "."}
  IN  IF dot = {} THEN Frac(DigitsToNat(s), 1)
      ELSE LET p == Min(dot)
               whole == SubSeq(s, 1, p - 1)
               frac == SubSeq(s, p + 1, Len(s))
           IN  Frac(DigitsToNat(whole) * Pow10(Len(frac)) + DigitsToNat(frac), Pow10(Len(frac)))

\* ------------------------------------------------------------------------
\* The alias table and the product catalog
\* ------------------------------------------------------------------------
\* PRODUCT_ALIASES, in the dict's iteration order
PRODUCT_ALIASES ==
  << [alias |-> <<"i","c","e","d"," ","c","o","f","f","e","e">>, pid |-> "p09", cat |-> "Cafe"],
     [alias |-> <<"i","c","e"," ","c","o","f","f","e","e">>, pid |-> "p09", cat |-> "Cafe"],
     [alias |-> <<"i","c","e","d"," ","t","e","a">>, pid |-> "p18", cat |-> "Cafe"],
     [alias |-> <<"i","c","e"," ","t","e","a">>, pid |-> "p18", cat |-> "Cafe"],
     [alias |-> <<"c","o","f","f","e","e">>, pid |-> "p08", cat |-> "Cafe"],
     [alias |-> <<"z","o","b","o">>, pid |-> "p10", cat |-> "Cafe"],
     [alias |-> <<"p","a","n","c","a","k","e">>, pid |-> "p01", cat |-> "Cafe"],
     [alias |-> <<"p","u","f","f"," ","p","u","f","f">>, pid |-> "p04", cat |-> "Cafe"],
     [alias |-> <<"p","u","f","f","-","p","u","f","f">>, pid |-> "p04", cat |-> "Cafe"],
     [alias |-> <<"s","m","o","o","t","h","i","e">>, pid |-> "p02", cat |-> "Cafe"],
     [alias |-> <<"f","r","u","i","t"," ","s","m","o","o","t","h","i","e">>, pid |-> "p02", cat |-> "Cafe"],
     [alias |-> <<"w","r","a","p">>, pid |-> "p05", cat |-> "Cafe"],
     [alias |-> <<"c","h","i","c","k","e","n"," ","w","r","a","p">>, pid |-> "p05", cat |-> "Cafe"],
     [alias |-> <<"s","p","i","c","y"," ","w","r","a","p">>, pid |-> "p05", cat |-> "Cafe"],
     [alias |-> <<"w","i","n","g","s">>, pid |-> "p06", cat |-> "Cafe"],
     [alias |-> <<"c","h","i","c","k","e","n"," ","w","i","n","g","s">>, pid |-> "p06", cat |-> "Cafe"],
     [alias |-> <<"t","a","p","i","o","c","a">>, pid |-> "p07", cat |-> "Cafe"],
     [alias |-> <<"p","a","r","f","a","i","t"," ","+"," ","w","i","n","g","s">>, pid |-> "p11", cat |-> "Cafe"],
     [alias |-> <<"p","a","r","f","a","i","t"," ","a","n","d"," ","w","i","n","g","s">>, pid |-> "p11", cat |-> "Cafe"],
     [alias |-> <<"p","a","r","f","a","i","t"," ","&"," ","w","i","n","g","s">>, pid |-> "p11", cat |-> "Cafe"],
     [alias |-> <<"p","a","r","f","a","i","t"," ","w","i","n","g","s">>, pid |-> "p11", cat |-> "Cafe"],
     [alias |-> <<"c","o","m","b","o">>, pid |-> "p11", cat |-> "Cafe"],
     [alias |-> <<"p","a","r","f","a","i","t">>, pid |-> "p12", cat |-> "Cafe"],
     [alias |-> <<"g","r","a","n","o","l","a">>, pid |-> "p13", cat |-> "Packaged"],
     [alias |-> <<"g","r","a","n","o","l","a"," ","5","0","0","g">>, pid |-> "p13", cat |-> "Packaged"],
     [alias |-> <<"s","p","i","c","y"," ","c","o","c","o","n","u","t">>, pid |-> "p14", cat |-> "Packaged"],
     [alias |-> <<"c","o","c","o","n","u","t"," ","f","l","a","k","e","s">>, pid |-> "p14", cat |-> "Packaged"],
     [alias |-> <<"c","a","s","h","e","w">>, pid |-> "p15", cat |-> "Packaged"],
     [alias |-> <<"h","o","n","e","y"," ","c","a","s","h","e","w">>, pid |-> "p15", cat |-> "Packaged"],
     [alias |-> <<"c","o","c","o","n","u","t"," ","c","a","s","h","e","w">>, pid |-> "p15", cat |-> "Packaged"],
     [alias |-> <<"c","c","b">>, pid |-> "p16", cat |-> "Packaged"],
     [alias |-> <<"w","a","t","e","r">>, pid |-> "p19", cat |-> "Cafe"],
     [alias |-> <<"s","p","a","c","e">>, pid |-> "p20", cat |-> "Other"],
     [alias |-> <<"s","p","a","c","e"," ","r","e","n","t","a","l">>, pid |-> "p20", cat |-> "Other"],
     [alias |-> <<"t","a","k","e"," ","a","w","a","y">>, pid |-> "p01", cat |-> "Cafe"],
     [alias |-> <<"b","o","o","k","s">>, pid |-> "p03", cat |-> "Retail"],
     [alias |-> <<"b","o","o","k">>, pid |-> "p03", cat |-> "Retail"],
     [alias |-> <<"w","h","o","l","e","s","a","l","e">>, pid |-> "p17", cat |-> "B2B"],
     [alias |-> <<"b","2","b">>, pid |-> "p17", cat |-> "B2B"],
     [alias |-> <<"b","u","l","k">>, pid |-> "p17", cat |-> "B2B"] >>

\* the products seeded by init_db, in the order load_products returns them
\* (ORDER BY channel name, product name); cost_ratio in hundredths
SeedProducts ==
  << [id |-> "p17", name |-> <<"W","h","o","l","e","s","a","l","e"," ","(","B","2","B",")">>, channel |-> "B2B", cost_ratio |-> 55, default_price |-> 1000],
     [id |-> "p06", name |-> <<"C","h","i","c","k","e","n"," ","W","i","n","g","s">>, channel |-> "Cafe", cost_ratio |-> 45, default_price |-> 8065],
     [id |-> "p08", name |-> <<"C","o","f","f","e","e">>, channel |-> "Cafe", cost_ratio |-> 28, default_price |-> 4300],
     [id |-> "p02", name |-> <<"F","r","u","i","t"," ","S","m","o","o","t","h","i","e">>, channel |-> "Cafe", cost_ratio |-> 40, default_price |-> 4840],
     [id |-> "p09", name |-> <<"I","c","e","d"," ","C","o","f","f","e","e">>, channel |-> "Cafe", cost_ratio |-> 30, default_price |-> 4840],
     [id |-> "p18", name |-> <<"I","c","e","d"," ","T","e","a">>, channel |-> "Cafe", cost_ratio |-> 30, default_price |-> 4840],
     [id |-> "p01", name |-> <<"P","a","n","c","a","k","e","s">>, channel |-> "Cafe", cost_ratio |-> 38, default_price |-> 4300],
     [id |-> "p12", name |-> <<"P","a","r","f","a","i","t">>, channel |-> "Cafe", cost_ratio |-> 40, default_price |-> 5375],
     [id |-> "p11", name |-> <<"P","a","r","f","a","i","t"," ","&"," ","W","i","n","g","s"," ","C","o","m","b","o">>, channel |-> "Cafe", cost_ratio |-> 45, default_price |-> 8600],
     [id |-> "p04", name |-> <<"P","u","f","f"," ","P","u","f","f">>, channel |-> "Cafe", cost_ratio |-> 30, default_price |-> 3765],
     [id |-> "p05", name |-> <<"S","p","i","c","y"," ","C","h","i","c","k","e","n"," ","W","r","a","p">>, channel |-> "Cafe", cost_ratio |-> 42, default_price |-> 4600],
     [id |-> "p07", name |-> <<"T","a","p","i","o","c","a">>, channel |-> "Cafe", cost_ratio |-> 35, default_price |-> 4300],
     [id |-> "p19", name |-> <<"W","a","t","e","r">>, channel |-> "Cafe", cost_ratio |-> 20, default_price |-> 500],
     [id |-> "p10", name |-> <<"Z","o","b","o">>, channel |-> "Cafe", cost_ratio |-> 25, default_price |-> 3765],
     [id |-> "p20", name |-> <<"S","p","a","c","e"," ","R","e","n","t","a","l">>, channel |-> "Other", cost_ratio |-> 5, default_price |-> 3500],
     [id |-> "p16", name |-> <<"C","C","B">>, channel |-> "Packaged", cost_ratio |-> 50, default_price |-> 9675],
     [id |-> "p13", name |-> <<"G","r","a","n","o","l","a"," ","5","0","0","g">>, channel |-> "Packaged", cost_ratio |-> 50, default_price |-> 6757],
     [id |-> "p15", name |-> <<"H","o","n","e","y"," ","C","o","c","o","n","u","t"," ","C","a","s","h","e","w">>, channel |-> "Packaged", cost_ratio |-> 50, default_price |-> 10750],
     [id |-> "p14", name |-> <<"S","p","i","c","y"," ","C","o","c","o","n","u","t"," ","F","l","a","k","e","s">>, channel |-> "Packaged", cost_ratio |-> 48, default_price |-> 3765],
     [id |-> "p03", name |-> <<"B","o","o","k","s">>, channel |-> "Retail", cost_ratio |-> 55, default_price |-> 10975] >>

\* update_product of one row: a new default price
WithPrice(cat, pid, price) ==
  [i \in 1..Len(cat) |-> IF cat[i].id = pid THEN [cat[i] EXCEPT !.default_price = price] ELSE cat[i]]

\* deactivate_product of one row: load_products returns the active rows only
Deactivated(cat, pid) == SelectSeq(cat, LAMBDA p : p.id # pid)

\* the catalogs of the model: as seeded; and with Iced Coffee removed and
\* Water repriced to 0 on the Products tab
Catalogs == <<SeedProducts, WithPrice(Deactivated(SeedProducts, "p09"), "p19", 0)>>

\* the defaults of an unmatched stub: cost_ratio 0.40 in hundredths
DEFAULT_RATIO == 40

\* ------------------------------------------------------------------------
\* best_match
\* ------------------------------------------------------------------------
\* the alias loop from entry k on: best is the entry kept so far (0: none)
\* and bestLen its keyword length; an entry replaces it only if strictly longer
RECURSIVE AliasScan(_, _, _, _)
AliasScanLastTie(item_lower, k, best, bestLen) ==
  IF k > Len(PRODUCT_ALIASES) THEN best
  ELSE LET a == PRODUCT_ALIASES[k].alias
       IN  IF IsSubstr(a, item_lower) /\ Len(a) >= bestLen
           THEN AliasScan(item_lower, k + 1, k, Len(a))
           ELSE AliasScan(item_lower, k + 1, best, bestLen)

AliasScan(item_lower, k, best, bestLen) ==
  IF k > Len(PRODUCT_ALIASES) THEN best
  ELSE LET a == PRODUCT_ALIASES[k].alias
       IN  IF IsSubstr(a, item_lower) /\ Len(a) > bestLen
           THEN AliasScan(item_lower, k + 1, k, Len(a))
           ELSE AliasScan(item_lower, k + 1, best, bestLen)

\* the alias entry best_match keeps for a description (0: none)
MatchedAlias(item_text) == AliasScan(Strip(Lower(item_text)), 1, 0, 0)

\* prod_ids.index(pid): the first row with that id (0: pid not in prod_ids)
IndexOfId(cat, pid) ==
  LET rows == {i \in 1..Len(cat) : cat[i].id = pid}
  IN  IF rows = {} THEN 0 ELSE Min(rows)

\* the fallback loop: the first row whose lower-cased name contains the
\* description or is contained in it (0: none)
NameMatch(cat, item_lower) ==
  LET rows == {i \in 1..Len(cat) :
                 \/ IsSubstr(Lower(cat[i].name), item_lower)
                 \/ IsSubstr(item_lower, Lower(cat[i].name))}
  IN  IF rows = {} THEN 0 ELSE Min(rows)

UnmatchedStubHigh(item_text) ==
  [product_id |-> "None", product_name |-> Title(Strip(item_text)),
   channel |-> "Cafe", category |-> "Cafe", unit_price |-> 0,
   cost_ratio |-> DEFAULT_RATIO, confidence |-> "high"]

UnmatchedStub(item_text) ==
  [product_id |-> "None", product_name |-> Title(Strip(item_text)),
   channel |-> "Cafe", category |-> "Cafe", unit_price |-> 0,
   cost_ratio |-> DEFAULT_RATIO, confidence |-> "low"]

best_match(cat, item_text) ==
  LET item_lower == Strip(Lower(item_text))
      k == MatchedAlias(item_text)
      idx == IF k = 0 THEN 0 ELSE IndexOfId(cat, PRODUCT_ALIASES[k].pid)
      i == NameMatch(cat, item_lower)
  IN  IF idx # 0
      THEN [product_id |-> PRODUCT_ALIASES[k].pid, product_name |-> cat[idx].name,
            channel |-> cat[idx].channel, category |-> PRODUCT_ALIASES[k].cat,
            unit_price |-> cat[idx].default_price, cost_ratio |-> cat[idx].cost_ratio,
            confidence |-> "high"]
      ELSE IF i # 0
      THEN [product_id |-> cat[i].id, product_name |-> cat[i].name,
            channel |-> cat[i].channel, category |-> cat[i].channel,
            unit_price |-> cat[i].default_price, cost_ratio |-> cat[i].cost_ratio,
            confidence |-> "medium"]
      ELSE UnmatchedStub(item_text)

\* ------------------------------------------------------------------------
\* parse_items
\* ------------------------------------------------------------------------
\* the unit alternatives of the quantity pattern, in the pattern's order
UNITS == << <<"k","g">>, <<"g">>, <<"p","c","s">>, <<"p","c">>, <<"x">> >>

\* r"^(\d+(?:\.\d+)?)\s*(?:kg|g|pcs|pc|x)?\s*(.+)$", matched the way re.match
\* backtracks.  Each operator is the pattern's tail from offset pos and gives
\* the offset where group 2 starts, or -1 when the tail cannot match.
\* \s*(.+)$ : the longest \s* that leaves a character for (.+)
RestStart(s, pos) ==
  Shift(pos, MaxOr({w \in 0..RunLen(s, pos, WS) : pos + w < Len(s)}, -1))

\* the length of unit alternative u (0: the empty alternative)
UnitLen(u) == IF u = 0 THEN 0 ELSE Len(UNITS[u])

\* (?:kg|g|pcs|pc|x)?\s*(.+)$ : the first alternative that lets the rest
\* match, and the empty alternative last
UnitRest(s, pos) ==
  RestStart(s, pos + UnitLen(MinOr({u \in 1..Len(UNITS) :
                                      /\ StartsAt(s, pos, UNITS[u])
                                      /\ RestStart(s, pos + Len(UNITS[u])) # -1}, 0)))

UnitRestFrom(s, at) == IF at = -1 THEN -1 ELSE UnitRest(s, at)

\* \s*(?:kg|g|pcs|pc|x)?\s*(.+)$ : the longest \s* that lets the rest match
AfterNumber(s, pos) ==
  UnitRestFrom(s, Shift(pos, MaxOr({w \in 0..RunLen(s, pos, WS) : UnitRest(s, pos + w) # -1}, -1)))

\* (?:\.\d+)? from the end of \d+: the longest fraction that lets the rest
\* match (0: the group does not take part)
FracLen(s, pos) ==
  IF StartsAt(s, pos, <<".">>)
  THEN MaxOr({b \in 1..RunLen(s, pos + 1, DigitSet) : AfterNumber(s, pos + 1 + b) # -1}, 0)
  ELSE 0

NumEnd(pos, b) == IF b = 0 THEN pos ELSE pos + 1 + b

AfterNumEnd(s, numEnd) == [numEnd |-> numEnd, rest |-> AfterNumber(s, numEnd)]

\* (?:\.\d+)? and the rest, from the end of \d+: numEnd is the end of group 1
AfterDigits(s, pos) == AfterNumEnd(s, NumEnd(pos, FracLen(s, pos)))

QtyGroups(s, m) ==
  [matched |-> TRUE, g1 |-> SubSeq(s, 1, m.numEnd), g2 |-> SubSeq(s, m.rest + 1, Len(s))]

QtyMatchFrom(s, a) ==
  IF a = 0 THEN [matched |-> FALSE] ELSE QtyGroups(s, AfterDigits(s, a))

\* the match object of the quantity pattern on a part: the longest \d+ that
\* lets the rest match
QtyMatch(s) ==
  QtyMatchFrom(s, MaxOr({a \in 1..RunLen(s, 0, DigitSet) : AfterDigits(s, a).rest # -1}, 0))

\* lines 515-522: qty and item_str of the match, and the stub of best_match
StubOfMatch(cat, part, m) ==
  [stub |-> best_match(cat, IF m.matched THEN Strip(m.g2) ELSE part),
   qty |-> IF m.matched THEN ParseDecimal(m.g1) ELSE Frac(1, 1)]

\* one part of the item list: the stub of best_match with its qty
ItemOfPart(cat, part) == StubOfMatch(cat, part, QtyMatch(part))

RECURSIVE ItemsOfParts(_, _)
ItemsOfParts(cat, parts) ==
  IF parts = <<>> THEN <<>>
  ELSE LET part == Strip(parts[1])
       IN  IF part = <<>> THEN ItemsOfParts(cat, Tail(parts))
           ELSE <<ItemOfPart(cat, part)>> \o ItemsOfParts(cat, Tail(parts))

parse_items(cat, items_text) ==
  ItemsOfParts(cat, SplitOn(Lower(items_text), {",", "+", "&"}))

\* ------------------------------------------------------------------------
\* parse_whatsapp_sales: the line filter and order_pattern
\* ------------------------------------------------------------------------
\* \bword\b occurs in s
HasWord(s, w) ==
  \E i \in 0..(Len(s) - Len(w)) :
     /\ StartsAt(s, i, w)
     /\ i = 0 \/ s[i] \notin WordChars
     /\ i + Len(w) = Len(s) \/ s[i + Len(w) + 1] \notin WordChars

FILTER_WORDS == << <<"t","o","t","a","l">>, <<"t","r","a","n","s","f","e","r">> >>

FILTER_SUBSTRINGS ==
  << <<"o","p","a","y">>, <<"g","t","b">>, <<"a","c","c","e","s","s">>,
     <<"z","e","n","i","t","h">>, <<"b","a","l","a","n","c","e">>,
     <<"s","u","m","m","a","r","y">> >>

\* re.search(r"\btotal\b|\btransfer\b|opay|gtb|access|zenith|balance|summary", line.lower())
IsFiltered(line) ==
  LET l == Lower(line)
  IN  \/ \E k \in 1..Len(FILTER_WORDS) : HasWord(l, FILTER_WORDS[k])
      \/ \E k \in 1..Len(FILTER_SUBSTRINGS) : IsSubstr(FILTER_SUBSTRINGS[k], l)

\* the character classes of order_pattern
MarkerClass == {"U+2705", "U+2611", "U+2713", "*"}

CustClass == Chars \ {"#", "-", "\n"}

SepClass == {"-", "U+2013", "U+2014", "#"} \cup WS

AmtClass == DigitSet \cup {","}

ItemsClass == Chars \ {")"}

\* order_pattern, matched the way re.search backtracks.  Each operator is the
\* pattern's tail from offset pos and gives an offset, or -1 when the tail
\* cannot match.
\* #?([\d,]+) : the offset where group 2 starts
AmtStart(s, pos) ==
  IF StartsAt(s, pos, <<"#">>) /\ RunLen(s, pos + 1, AmtClass) >= 1 THEN pos + 1
  ELSE IF RunLen(s, pos, AmtClass) >= 1 THEN pos
  ELSE -1

\* [-#\s]*#?([\d,]+) : greedy separators; the offset where the separators end
SepEnd(s, pos) ==
  Shift(pos, MaxOr({d \in 0..RunLen(s, pos, SepClass) : AmtStart(s, pos + d) # -1}, -1))

\* ([^#\-\n]+?) and the rest: lazy; the offset where group 1 ends
CustEnd(s, pos) ==
  Shift(pos, MinOr({c \in 1..RunLen(s, pos, CustClass) : SepEnd(s, pos + c) # -1}, -1))

\* \s* and the rest: greedy; the offset where group 1 starts
CustStart(s, pos) ==
  Shift(pos, MaxOr({w \in 0..RunLen(s, pos, WS) : CustEnd(s, pos + w) # -1}, -1))

\* \S* and the rest: greedy; the offset where \S* ends
MarkerTailEnd(s, pos) ==
  Shift(pos, MaxOr({n \in 0..RunLen(s, pos, Chars \ WS) : CustStart(s, pos + n) # -1}, -1))

\* \(([^)]+)\) from the offset of the parenthesis: the length of group 3
\* (0: no match)
ItemsLen(s, open) ==
  IF StartsAt(s, open, <<"(">>)
  THEN MaxOr({k \in 1..RunLen(s, open + 1, ItemsClass) : StartsAt(s, open + 1 + k, <<")">>)}, 0)
  ELSE 0

ItemsFrom(s, open) ==
  IF open = -1 THEN <<>> ELSE SubSeq(s, open + 2, open + 1 + ItemsLen(s, open))

\* (?:\s*\(([^)]+)\))? after the amount: group 3, or <<>> when the group
\* does not take part in the match (m.group(3) or "")
ItemsGroup(s, pos) ==
  ItemsFrom(s, Shift(pos, MaxOr({w \in 0..RunLen(s, pos, WS) : ItemsLen(s, pos + w) > 0}, -1)))

\* the groups of the match whose group 1 is c0..c1 and whose group 2 starts at a0
OrderGroups(line, c0, c1, a0) ==
  [matched |-> TRUE,
   g1 |-> SubSeq(line, c0 + 1, c1),
   g2 |-> SubSeq(line, a0 + 1, a0 + RunLen(line, a0, AmtClass)),
   g3 |-> ItemsGroup(line, a0 + RunLen(line, a0, AmtClass))]

MatchCustomer(line, c0, c1) == OrderGroups(line, c0, c1, AmtStart(line, SepEnd(line, c1)))

MatchFrom(line, b) ==
  IF b = -1 THEN [matched |-> FALSE]
  ELSE MatchCustomer(line, CustStart(line, MarkerTailEnd(line, b + 1)),
                     CustEnd(line, CustStart(line, MarkerTailEnd(line, b + 1))))

\* order_pattern.search(line): the leftmost start that matches, and its groups
OrderMatch(line) ==
  MatchFrom(line, MinOr({b \in 0..(Len(line) - 1) :
                           line[b + 1] \in MarkerClass /\ MarkerTailEnd(line, b + 1) # -1}, -1))

WALK_IN == <<"W","a","l","k","-","i","n">>

\* lines 543-546: the customer name of group 1
NormalizeCustomer(g1) ==
  LET customer == CollapseWS(Strip(StripSet(Strip(g1), {"-", "U+2014"})))
  IN  IF customer = <<>> \/ Lower(customer) \in {<<>>, Lower(WALK_IN), <<"w","a","l","k"," ","i","n">>}
      THEN WALK_IN ELSE customer

\* lines 556-562
PaymentHint(line) ==
  LET l == Lower(line)
  IN  IF IsSubstr(<<"c","a","s","h">>, l) THEN "Cash"
      ELSE IF IsSubstr(<<"p","o","s">>, l) THEN "POS"
      ELSE IF IsSubstr(<<"o","p","a","y">>, l) THEN "Opay"
      ELSE "Bank Transfer"

TAKE_OUT_WORDS ==
  << <<"t","a","k","e"," ","o","u","t">>, <<"t","a","k","e","o","u","t">>,
     <<"t","a","k","e","-","o","u","t">>, <<"t","o"," ","g","o">> >>

\* line 564
OrderTypeHint(line) ==
  IF \E k \in 1..Len(TAKE_OUT_WORDS) : IsSubstr(TAKE_OUT_WORDS[k], Lower(line))
  THEN "Take-out" ELSE "Dine-in"

\* ------------------------------------------------------------------------
\* parse_whatsapp_sales: reconciliation (lines 566-595) and the drafts
\* ------------------------------------------------------------------------
AddFrac(a, b) == Frac(a.n * b.d + b.n * a.d, a.d * b.d)

\* total_derived: sum(qty * unit_price) over the stubs with unit_price > 0
RECURSIVE TotalDerived(_)
TotalDerived(items) ==
  IF items = <<>> THEN Frac(0, 1)
  ELSE IF items[1].stub.unit_price > 0
       THEN AddFrac(Frac(items[1].qty.n * items[1].stub.unit_price, items[1].qty.d),
                    TotalDerived(Tail(items)))
       ELSE TotalDerived(Tail(items))

\* lines 579-581 on one item whose unit_price and total_price are set
WithCogs(it) ==
  LET uc == RoundProduct(it.unit_price, it.cost_ratio, 100)
  IN  [it EXCEPT !.unit_cogs = uc, !.total_cogs = Round(uc * it.qty.n, it.qty.d)]

\* the item dict of a stub with its qty, before the prices are set
ItemDict(e) ==
  [product_id |-> e.stub.product_id, product_name |-> e.stub.product_name,
   channel |-> e.stub.channel, category |-> e.stub.category, qty |-> e.qty,
   unit_price |-> e.stub.unit_price, total_price |-> 0,
   cost_ratio |-> e.stub.cost_ratio, unit_cogs |-> 0, total_cogs |-> 0,
   confidence |-> e.stub.confidence]

\* lines 569-572: no stub is priced; amount / len(items) to every item
EvenSplitByUnit(amount, n, e) ==
  LET up == Round(amount * e.qty.d, n * e.qty.n)
  IN  WithCogs([ItemDict(e) EXCEPT !.unit_price = up,
                                   !.total_price = Round(up * e.qty.n, e.qty.d)])

EvenSplit(amount, n, e) ==
  WithCogs([ItemDict(e) EXCEPT !.unit_price = Round(amount * e.qty.d, n * e.qty.n),
                               !.total_price = Round(amount, n)])

\* lines 574-577: scale = amount / total_derived; a priced stub is scaled, a
\* zero-priced one gets amount / len(items) / qty
ScaledUnitPriceTruncated(amount, n, td, e) ==
  IF e.stub.unit_price > 0
  THEN (e.stub.unit_price * amount * td.d) \div td.n
  ELSE Round(amount * e.qty.d, n * e.qty.n)

ScaledUnitPrice(amount, n, td, e) ==
  IF e.stub.unit_price > 0
  THEN RoundProduct(e.stub.unit_price, amount * td.d, td.n)
  ELSE Round(amount * e.qty.d, n * e.qty.n)

Scaled(amount, n, td, e) ==
  LET up == ScaledUnitPrice(amount, n, td, e)
  IN  WithCogs([ItemDict(e) EXCEPT !.unit_price = up,
                                   !.total_price = Round(up * e.qty.n, e.qty.d)])

\* line 583-595: the single item of an order without item list
UnknownItem(amount) ==
  [product_id |-> "None", product_name |-> <<"U","n","k","n","o","w","n"," ","I","t","e","m">>,
   channel |-> "Cafe", category |-> "Cafe", qty |-> Frac(1, 1),
   unit_price |-> amount, total_price |-> amount, cost_ratio |-> DEFAULT_RATIO,
   unit_cogs |-> RoundProduct(amount, DEFAULT_RATIO, 100),
   total_cogs |-> RoundProduct(amount, DEFAULT_RATIO, 100), confidence |-> "low"]

\* the division by it["qty"] of lines 571 and 576 raises ZeroDivisionError
DividesByZero(items, td) ==
  \E k \in 1..Len(items) :
     items[k].qty.n = 0 /\ (td.n = 0 \/ items[k].stub.unit_price = 0)

\* lines 566-595: the items of the draft, for the stubs of parse_items
Reconcile(amount, stubs) ==
  LET n == Len(stubs)
      td == TotalDerived(stubs)
  IN  IF n = 0 THEN <<UnknownItem(amount)>>
      ELSE IF td.n = 0 THEN [k \in 1..n |-> EvenSplit(amount, n, stubs[k])]
      ELSE [k \in 1..n |-> Scaled(amount, n, td, stubs[k])]

\* lines 566-606: the draft of a matched line, or "raise" when a division by
\* it["qty"] raises ZeroDivisionError and leaves the function
OrderOfLine(line, m, amount, stubs) ==
  IF DividesByZero(stubs, TotalDerived(stubs)) THEN [kind |-> "raise"]
  ELSE [kind |-> "order",
        order |-> [customer_name |-> NormalizeCustomer(m.g1),
                   order_type |-> OrderTypeHint(line),
                   payment_method |-> PaymentHint(line),
                   status |-> "Confirmed",
                   total_amount |-> amount,
                   items |-> Reconcile(amount, stubs)]]

\* lines 548-554: the amount of group 2 without its commas, and the stubs
AmountOfLine(cat, line, m, digits) ==
  IF digits = <<>> THEN [kind |-> "skip"]
  ELSE OrderOfLine(line, m, DigitsToNat(digits),
                   IF m.g3 = <<>> THEN <<>> ELSE parse_items(cat, m.g3))

\* lines 539-541
MatchOfLine(cat, line, m) ==
  IF ~m.matched THEN [kind |-> "skip"]
  ELSE AmountOfLine(cat, line, m, RemoveChar(m.g2, ","))

\* lines 534-537
StrippedLine(cat, line) ==
  IF line = <<>> \/ IsFiltered(line) THEN [kind |-> "skip"]
  ELSE MatchOfLine(cat, line, OrderMatch(line))

\* lines 533-606 on one line of the message: "skip" (continue), "raise"
\* (ZeroDivisionError leaves the function) or "order" with the draft
ParseLine(cat, rawline) == StrippedLine(cat, Strip(rawline))

\* the outcome of a line before the outcome of the lines after it
ThenLines(r, rest) ==
  IF r.kind = "raise" THEN [raised |-> TRUE, orders |-> <<>>]
  ELSE IF r.kind = "skip" THEN rest
  ELSE IF rest.raised THEN rest
  ELSE [raised |-> FALSE, orders |-> <<r.order>> \o rest.orders]

RECURSIVE ParseLines(_, _)
ParseLines(cat, lines) ==
  IF lines = <<>> THEN [raised |-> FALSE, orders |-> <<>>]
  ELSE ThenLines(ParseLine(cat, lines[1]), ParseLines(cat, Tail(lines)))

\* parse_whatsapp_sales(text, sale_date, products_df): the drafts, or raised
parse_whatsapp_sales(cat, text) == ParseLines(cat, SplitOn(Strip(text), {"\n"}))

\* ------------------------------------------------------------------------
\* The inputs of the model
\* ------------------------------------------------------------------------
\* the number of item phrases in a generated item list
MaxItems == 2

\* the placeholder message of the import tab (lines 1250-1254)
PLACEHOLDER_TEXT ==
  <<"F","e","b","r","u","a","r","y"," ","2","5","t","h",","," ","2","0","2","6"," ","S","a","l","e","s"," ","o","f"," ","t","h","e"," ","d","a","y","\n","U+2705","U+FE0F"," ","O","m","o","s","h","e","l","e","w","a"," ","T","e","m","i","t","o","p","e"," ","#","4",",","3","0","0"," ","(","1"," ","c","o","f","f","e","e",","," ","t","a","k","e"," ","o","u","t",")","\n","U+2705","U+FE0F"," ","J","a","n","e","t"," ","J","o","h","n","s","o","n","-","-","-","#","9",",","6","8","0","(","2"," ","i","c","e","d"," ","c","o","f","f","e","e",")","\n","U+2705"," ","D","e","b","o","r","a","h"," ","#","1","3",",","4","4","0"," ","(","1"," ","g","r","a","n","o","l","a"," ","5","0","0","g",","," ","2"," ","z","o","b","o",")","\n","T","o","t","a","l",":"," ","#","2","7",",","4","2","0">>

JANET_LINE == <<"U+2705"," ","J","a","n","e","t"," ","J","o","h","n","s","o","n","-","-","-","#","9",",","6","8","0","(","2"," ","i","c","e","d"," ","c","o","f","f","e","e",")">>

DEBORAH_LINE == <<"U+2705"," ","D","e","b","o","r","a","h"," ","#","1","3",",","4","4","0"," ","(","1"," ","g","r","a","n","o","l","a"," ","5","0","0","g",","," ","2"," ","z","o","b","o",")">>

TEMITOPE_LINE == <<"U+2705","U+FE0F"," ","O","m","o","s","h","e","l","e","w","a"," ","T","e","m","i","t","o","p","e"," ","#","4",",","3","0","0"," ","(","1"," ","c","o","f","f","e","e",","," ","t","a","k","e"," ","o","u","t",")">>

Customers ==
  << <<"D","e","b","o","r","a","h">>,
     <<>>,
     <<"W","a","l","k","-","i","n">>,
     <<"w","a","l","k"," ","i","n">>,
     <<"W","A","L","K","-","I","N">>,
     <<"W","a","l","k"," ","I","n">> >>

Separators == << <<" ">>, <<"-","-","-">> >>

AmountTexts ==
  << <<"9",",","6","8","0">>,
     <<"4",",","3","0","0">>,
     <<"1","0","2">>,
     <<"7",",","5","3","0">>,
     <<"3","0","1">> >>

Phrases ==
  << <<"2"," ","i","c","e","d"," ","c","o","f","f","e","e">>,
     <<"c","o","f","f","e","e">>,
     <<"t","a","k","e"," ","o","u","t">>,
     <<"f","o","o">>,
     <<"3"," ","b","a","r">>,
     <<"2"," ","z","o","b","o">>,
     <<"0",".","5"," ","z","o","b","o">>,
     <<"4"," ","w","a","t","e","r">>,
     <<"0"," ","f","o","o">> >>

\* a line as the operator types it: marker, customer, separator, #amount and
\* the optional item list in parentheses
OrderLine(customer, sep, amount, items) ==
  <<"U+2705", " ">> \o customer \o sep \o <<"#">> \o amount
     \o (IF items = <<>> THEN <<>> ELSE <<" ", "(">> \o items \o <<")">>)

RECURSIVE JoinPhrases(_)
JoinPhrases(ix) ==
  IF ix = <<>> THEN <<>>
  ELSE IF Len(ix) = 1 THEN Phrases[ix[1]]
  ELSE Phrases[ix[1]] \o <<",", " ">> \o JoinPhrases(Tail(ix))

ItemTexts ==
  {JoinPhrases(ix) : ix \in UNION {[1..n -> 1..Len(Phrases)] : n \in 1..MaxItems}}

\* words written after an order, as a cashier notes the payment
PaymentNotes ==
  << <<"c","a","s","h">>,
     <<"p","o","s">>,
     <<"o","p","a","y">>,
     <<"P","O","S"," ","c","a","s","h">>,
     <<"p","a","i","d">>,
     <<"d","e","p","o","s","i","t">> >>

PaymentLines ==
  {OrderLine(Customers[1], Separators[1], AmountTexts[2], Phrases[2]) \o <<" ">> \o PaymentNotes[k] :
     k \in 1..Len(PaymentNotes)}

\* a priced item of quantity 0 next to a priced item
ZERO_QTY_PRICED_LINE == <<"U+2705"," ","D","e","b","o","r","a","h"," ","#","1","0","2"," ","(","0"," ","c","o","f","f","e","e",","," ","2"," ","z","o","b","o",")">>

\* lines of the form customer / phone / #amount / (items) / channel
SLASH_LINE == <<"U+2705"," ","A","d","a"," ","/"," ","0","8","0","1","2","3","4"," ","/"," ","#","4",",","3","0","0"," ","/"," ","(","1"," ","c","o","f","f","e","e",")"," ","/"," ","w","h","a","t","s","a","p","p">>

SLASH_NO_PHONE_LINE == <<"U+2705"," ","A","d","a"," ","/"," ","#","4",",","3","0","0"," ","/"," ","(","1"," ","c","o","f","f","e","e",")">>

\* item lists whose words hold a payment word or a summary keyword
KeywordItemTexts ==
  {<<"1"," ","c","a","s","h","e","w">>,
   <<"s","p","a","c","e"," ","r","e","n","t","a","l"," ","b","a","l","a","n","c","e">>}

\* customers whose name holds digits or a hyphen
DIGIT_CUSTOMER_LINE == <<"U+2705"," ","F","l","a","t"," ","1","2"," ","#","4",",","3","0","0"," ","(","c","o","f","f","e","e",")">>

HYPHEN_CUSTOMER_LINE == <<"U+2705"," ","M","a","r","y","-","J","a","n","e"," ","#","4",",","3","0","0"," ","(","c","o","f","f","e","e",")">>

ParseInputs ==
  {PLACEHOLDER_TEXT, JANET_LINE, DEBORAH_LINE, TEMITOPE_LINE,
   ZERO_QTY_PRICED_LINE, SLASH_LINE, SLASH_NO_PHONE_LINE,
   DIGIT_CUSTOMER_LINE, HYPHEN_CUSTOMER_LINE}
    \cup {OrderLine(Customers[1], Separators[1], AmountTexts[2], it) : it \in KeywordItemTexts}
    \cup PaymentLines
    \cup {OrderLine(Customers[c], Separators[p], AmountTexts[a], <<>>) :
            c \in 1..Len(Customers), p \in 1..Len(Separators), a \in 1..Len(AmountTexts)}
    \cup {OrderLine(Customers[1], Separators[1], AmountTexts[a], it) :
            a \in 1..Len(AmountTexts), it \in ItemTexts}

\* item phrases made of a quantity and an alias keyword
AliasQuantities == << <<"1">>, <<"2">>, <<"1","0">> >>

AliasPhrase(n, k) == AliasQuantities[n] \o <<" ">> \o PRODUCT_ALIASES[k].alias

AliasPhrases ==
  {AliasPhrase(n, k) : n \in 1..Len(AliasQuantities), k \in 1..Len(PRODUCT_ALIASES)}

\* descriptions as parse_items hands them to best_match: one or two words,
\* and some longer phrases
Words ==
  << <<"i","c","e","d">>,
     <<"i","c","e">>,
     <<"c","o","f","f","e","e">>,
     <<"t","e","a">>,
     <<"c","h","i","c","k","e","n">>,
     <<"w","i","n","g","s">>,
     <<"w","r","a","p">>,
     <<"p","a","r","f","a","i","t">>,
     <<"c","o","m","b","o">>,
     <<"g","r","a","n","o","l","a">>,
     <<"5","0","0","g">>,
     <<"r","a","n","o","l","a">>,
     <<"c","a","s","h","e","w">>,
     <<"z","o","b","o">>,
     <<"b","o","o","k">>,
     <<"b","o","o","k","s">>,
     <<"p","u","f","f">>,
     <<"f","o","o">>,
     <<"l","a","r","g","e">>,
     <<"w","a","t","e","r">>,
     <<"t","a","k","e">>,
     <<"o","u","t">>,
     <<"g">>,
     <<"2">> >>

LongDescriptions ==
  << <<"i","c","e","d"," ","c","o","f","f","e","e"," ","a","n","d"," ","c","h","i","c","k","e","n"," ","w","i","n","g","s">>,
     <<"p","a","r","f","a","i","t"," ","a","n","d"," ","w","i","n","g","s">>,
     <<"s","p","i","c","y"," ","c","h","i","c","k","e","n"," ","w","r","a","p">>,
     <<"h","o","n","e","y"," ","c","o","c","o","n","u","t"," ","c","a","s","h","e","w">>,
     <<"s","p","i","c","y"," ","c","o","c","o","n","u","t"," ","f","l","a","k","e","s">>,
     <<"w","h","o","l","e","s","a","l","e"," ","(","b","2","b",")">>,
     <<"p","a","r","f","a","i","t"," ","a","n","d"," ","w","i","n","g","s"," ","c","o","m","b","o">>,
     <<"f","r","u","i","t"," ","s","m","o","o","t","h","i","e">>,
     <<"s","p","a","c","e"," ","r","e","n","t","a","l">> >>

Descriptions ==
  {Words[i] : i \in 1..Len(Words)}
    \cup {Words[i] \o <<" ">> \o Words[j] : i, j \in 1..Len(Words)}
    \cup {LongDescriptions[i] : i \in 1..Len(LongDescriptions)}

\* ------------------------------------------------------------------------
\* State
\* ------------------------------------------------------------------------
VARIABLES
  catIdx,         \* which catalog load_products returns (an index of Catalogs)
  call,           \* the function under call ("parse", "best_match", "parse_items"), or the
                  \* database function the last run called, or "none"
  arg,            \* its argument: the message text or the description
  pc,             \* "ready" before the call, "done" after it, "idle" without a call
  ret,            \* what the call returned
  has_parsed,     \* "parsed_orders" in st.session_state
  parsed_orders,  \* st.session_state["parsed_orders"]: the drafts under review
  orders_table,   \* the rows of orders committed by the import, each with its order_items rows
  customers,      \* the names in the customers table
  notice,         \* what the last script run showed
  batch_no,       \* history: the number of the parse that made the drafts
  last_edit,      \* history: the widget change of the last run (NoEdit: none)
  edit_count,     \* history: the number of review edits so far, repeats not counted
  edit_repeats,   \* history: the last run applied the same edit as the run before
  last_save,      \* history: the call of save_parsed_orders in the last run (NoSave: none)
  last_parse,     \* history: the Parse click of the last run (NoParse: none)
  ended,          \* history: how the last batch of drafts left the session
  balance_notes,  \* per order, what lines 1344-1349 showed in the last run
  db,             \* the SQLite file: its tables and their AUTOINCREMENT counters
  removed,        \* history: per table, the contents the user deleted and has not saved since
  logged_in,      \* st.session_state.get("logged_in")
  manual_items,   \* st.session_state["manual_items"], <<>> when the key is missing
  order_header,   \* st.session_state["order_header"] (NoHeader: the key is missing)
  channels_cache, \* what st.cache_data holds for load_channels (NoCache: nothing)
  products_cache, \* what st.cache_data holds for load_products (NoCache: nothing)
  runs            \* per browser session, where its script run stands

callVars == <<call, arg, pc, ret>>

sessionVars ==
  <<has_parsed, parsed_orders, orders_table, customers, notice, batch_no,
    last_edit, edit_count, edit_repeats, last_save, last_parse, ended,
    balance_notes>>

appVars ==
  <<db, removed, logged_in, manual_items, order_header, channels_cache,
    products_cache, runs>>

vars == <<catIdx, callVars, sessionVars, appVars>>

\* no widget changed
NoEdit == [kind |-> "none", oi |-> 0, ii |-> 0, field |-> "none", value |-> 0]

\* no call of save_parsed_orders
NoSave == [batch |-> 0, n |-> 0, fail_at |-> 0]

\* no click on the Parse button
NoParse == [clicked |-> FALSE, text |-> <<>>, default_payment |-> "none"]

\* a session that has not parsed anything yet, over an empty import history
SessionInit ==
  /\ has_parsed = FALSE
  /\ parsed_orders = <<>>
  /\ orders_table = <<>>
  /\ customers = {}
  /\ notice = "none"
  /\ batch_no = 0
  /\ last_edit = NoEdit
  /\ edit_count = 0
  /\ edit_repeats = FALSE
  /\ last_save = NoSave
  /\ last_parse = NoParse
  /\ ended = "none"
  /\ balance_notes = <<>>

\* ------------------------------------------------------------------------
\* The database and init_db
\* ------------------------------------------------------------------------
\* the model seeds the first MaxSeedRows entries of daily and of expenses
MaxSeedRows == 2

\* the AUTOINCREMENT counters of orders and of transactions stay within it
MaxRowId == 6

\* the AUTOINCREMENT counter of channels stays within it
MaxChannelId == 6

\* hashlib.sha256(pw.encode()).hexdigest(): one digest per password
hash_pw(pw) == <<"sha256", pw>>

\* the password of the seeded user admin (line 203)
SeedPassword == <<"k","o","k","a","r","i","2","0","2","6">>

\* the channel names of lines 208-209, in the order of their insertion
SeedChannels == <<"Cafe", "B2B", "Packaged", "Retail", "Other">>

\* the list daily of _seed_orders: per day the number of items and their sum
daily ==
  << [date |-> "2026-02-09", items |-> 5, total |-> 89730],
     [date |-> "2026-02-10", items |-> 6, total |-> 43635],
     [date |-> "2026-02-11", items |-> 7, total |-> 73640],
     [date |-> "2026-02-12", items |-> 9, total |-> 141887],
     [date |-> "2026-02-13", items |-> 11, total |-> 609813],
     [date |-> "2026-02-14", items |-> 9, total |-> 147860] >>

\* the list expenses of _seed_expenses
expenses ==
  << [date |-> "2026-02-09", category |-> "Ingredients", name |-> "Sugar", amount |-> 9000],
     [date |-> "2026-02-09", category |-> "Ingredients", name |-> "Flour", amount |-> 5400],
     [date |-> "2026-02-09", category |-> "Ingredients", name |-> "Chicken Wings", amount |-> 20178],
     [date |-> "2026-02-09", category |-> "Ingredients", name |-> "Chicken", amount |-> 11000],
     [date |-> "2026-02-09", category |-> "Ingredients", name |-> "Bread", amount |-> 1200],
     [date |-> "2026-02-09", category |-> "Ingredients", name |-> "Mayonnaise", amount |-> 4000],
     [date |-> "2026-02-09", category |-> "Ingredients", name |-> "Banana", amount |-> 2000],
     [date |-> "2026-02-09", category |-> "Ingredients", name |-> "Oil", amount |-> 4400],
     [date |-> "2026-02-09", category |-> "Ingredients", name |-> "Carrot and Cabbage", amount |-> 3000],
     [date |-> "2026-02-09", category |-> "Ingredients", name |-> "Eggs", amount |-> 5900],
     [date |-> "2026-02-09", category |-> "Ingredients", name |-> "Groundnut", amount |-> 2000],
     [date |-> "2026-02-09", category |-> "Ingredients", name |-> "Powder Milk", amount |-> 44000],
     [date |-> "2026-02-09", category |-> "Ingredients", name |-> "Pineapple", amount |-> 3000],
     [date |-> "2026-02-09", category |-> "Ingredients", name |-> "Ginger", amount |-> 2000],
     [date |-> "2026-02-09", category |-> "Ingredients", name |-> "Cinnamon", amount |-> 2000],
     [date |-> "2026-02-09", category |-> "Ingredients", name |-> "Cloves", amount |-> 1000],
     [date |-> "2026-02-09", category |-> "Ingredients", name |-> "Grapes", amount |-> 6000],
     [date |-> "2026-02-09", category |-> "Ingredients", name |-> "Honey", amount |-> 6000],
     [date |-> "2026-02-09", category |-> "Ingredients", name |-> "Liquid Milk", amount |-> 10200],
     [date |-> "2026-02-09", category |-> "Utilities", name |-> "NEPA Electricity", amount |-> 10000],
     [date |-> "2026-02-09", category |-> "Utilities", name |-> "Data", amount |-> 3500],
     [date |-> "2026-02-09", category |-> "Utilities", name |-> "Recharge Card", amount |-> 2000],
     [date |-> "2026-02-09", category |-> "Utilities", name |-> "Water CWay", amount |-> 3400],
     [date |-> "2026-02-09", category |-> "Packaging", name |-> "Zobo Bottles", amount |-> 4400],
     [date |-> "2026-02-09", category |-> "Packaging", name |-> "Foil", amount |-> 3000],
     [date |-> "2026-02-09", category |-> "Packaging", name |-> "Serviettes", amount |-> 2000],
     [date |-> "2026-02-09", category |-> "Packaging", name |-> "Spoons", amount |-> 3000],
     [date |-> "2026-02-09", category |-> "Packaging", name |-> "Water retail", amount |-> 2500],
     [date |-> "2026-02-09", category |-> "Transport", name |-> "Transport", amount |-> 1500],
     [date |-> "2026-02-09", category |-> "Miscellaneous", name |-> "Printing", amount |-> 400],
     [date |-> "2026-02-09", category |-> "Miscellaneous", name |-> "Bank Charges", amount |-> 400],
     [date |-> "2026-02-09", category |-> "Miscellaneous", name |-> "Phone Repair", amount |-> 500],
     [date |-> "2026-02-09", category |-> "Logistics", name |-> "Bucket", amount |-> 3000],
     [date |-> "2026-02-09", category |-> "Logistics", name |-> "Item Delivery x7", amount |-> 2000],
     [date |-> "2026-02-09", category |-> "Utilities", name |-> "NEPA Imprest", amount |-> 3000],
     [date |-> "2026-02-09", category |-> "Stationery", name |-> "Battery and Book", amount |-> 1000],
     [date |-> "2026-02-09", category |-> "Packaging", name |-> "Serviettes Imprest", amount |-> 1000],
     [date |-> "2026-02-14", category |-> "Ingredients", name |-> "Chicken Wings", amount |-> 36321],
     [date |-> "2026-02-14", category |-> "Ingredients", name |-> "Flour", amount |-> 6400],
     [date |-> "2026-02-14", category |-> "Ingredients", name |-> "Eggs", amount |-> 6000],
     [date |-> "2026-02-14", category |-> "Packaging", name |-> "Straws", amount |-> 3700],
     [date |-> "2026-02-14", category |-> "Packaging", name |-> "Water retail", amount |-> 4400],
     [date |-> "2026-02-14", category |-> "Transport", name |-> "Transport", amount |-> 500] >>

\* the seed entries the model inserts
SeedPrefix(list) == SubSeq(list, 1, Min({MaxSeedRows, Len(list)}))

\* what lines 333-336 insert for one day of daily
SeedOrder(day) ==
  [date |-> day.date, customer_name |-> "Daily Batch",
   total_amount |-> day.total, note |-> "Seeded data"]

\* what lines 396-399 insert for one entry of expenses
SeedExpense(e) ==
  [date |-> e.date, name |-> e.name, category |-> e.category,
   amount |-> e.amount, note |-> ""]

OrderRow(id, o) ==
  [id |-> id, date |-> o.date, customer_name |-> o.customer_name,
   total_amount |-> o.total_amount, note |-> o.note]

ExpenseRow(id, e) ==
  [id |-> id, date |-> e.date, name |-> e.name, category |-> e.category,
   amount |-> e.amount, note |-> e.note]

\* a row without its id
OrderContent(r) ==
  [date |-> r.date, customer_name |-> r.customer_name,
   total_amount |-> r.total_amount, note |-> r.note]

ExpenseContent(r) ==
  [date |-> r.date, name |-> r.name, category |-> r.category,
   amount |-> r.amount, note |-> r.note]

\* the database file before the first run: no table holds a row
NoDb ==
  [ready |-> FALSE, users |-> {}, channels |-> {}, products |-> {},
   orders |-> {}, transactions |-> {},
   seq |-> [channels |-> 0, orders |-> 0, transactions |-> 0]]

\* the id of the channel of that name (the dict ch of lines 222-223)
ChannelId(channels, name) == (CHOOSE c \in channels : c.name = name).id

\* init_db: creates the tables and seeds each table that holds no row
init_db(d) ==
  LET users == IF d.users = {}
               THEN {[username |-> "admin", password |-> hash_pw(SeedPassword),
                      role |-> "admin"]}
               ELSE d.users
      channels == IF d.channels = {}
                  THEN {[id |-> d.seq.channels + k, name |-> SeedChannels[k]] :
                          k \in 1..Len(SeedChannels)}
                  ELSE d.channels
      products == IF d.products = {}
                  THEN {[id |-> SeedProducts[k].id,
                         channel_id |-> ChannelId(channels, SeedProducts[k].channel)] :
                          k \in 1..Len(SeedProducts)}
                  ELSE d.products
      so == SeedPrefix(daily)
      se == SeedPrefix(expenses)
      orders == IF d.orders = {}
                THEN {OrderRow(d.seq.orders + k, SeedOrder(so[k])) : k \in 1..Len(so)}
                ELSE d.orders
      transactions == IF d.transactions = {}
                      THEN {ExpenseRow(d.seq.transactions + k, SeedExpense(se[k])) :
                              k \in 1..Len(se)}
                      ELSE d.transactions
  IN  [ready |-> TRUE, users |-> users, channels |-> channels,
       products |-> products, orders |-> orders, transactions |-> transactions,
       seq |-> [channels |-> IF d.channels = {}
                             THEN d.seq.channels + Len(SeedChannels)
                             ELSE d.seq.channels,
                orders |-> IF d.orders = {} THEN d.seq.orders + Len(so)
                           ELSE d.seq.orders,
                transactions |-> IF d.transactions = {}
                                 THEN d.seq.transactions + Len(se)
                                 ELSE d.seq.transactions]]

\* the browser sessions that run the script at the same time
Sessions == {"A", "B"}

\* a session whose script is between two runs
Idle == [at |-> "idle"]

\* no order header in st.session_state
NoHeader == [set |-> FALSE]

\* no result kept by st.cache_data
NoCache == <<>>

\* the database after its first run, a logged-in session with an empty
\* manual entry, empty caches and no script under way
AppSeeded ==
  /\ db = init_db(NoDb)
  /\ removed = [orders |-> {}, transactions |-> {}]
  /\ logged_in = TRUE
  /\ manual_items = <<>>
  /\ order_header = NoHeader
  /\ channels_cache = NoCache
  /\ products_cache = NoCache
  /\ runs = [s \in Sessions |-> Idle]

\* ------------------------------------------------------------------------
\* The parser called on its own
\* ------------------------------------------------------------------------
InitParse ==
  /\ catIdx \in 1..Len(Catalogs)
  /\ \/ call = "parse" /\ arg \in ParseInputs
     \/ call = "best_match" /\ arg \in Descriptions
     \/ call = "parse_items" /\ arg \in AliasPhrases
  /\ pc = "ready"
  /\ ret = <<>>
  /\ SessionInit
  /\ AppSeeded

CallParse ==
  /\ pc = "ready" /\ call = "parse"
  /\ ret' = parse_whatsapp_sales(Catalogs[catIdx], arg)
  /\ pc' = "done"
  /\ UNCHANGED <<appVars, catIdx, call, arg, sessionVars>>

CallBestMatch ==
  /\ pc = "ready" /\ call = "best_match"
  /\ ret' = best_match(Catalogs[catIdx], arg)
  /\ pc' = "done"
  /\ UNCHANGED <<appVars, catIdx, call, arg, sessionVars>>

CallParseItems ==
  /\ pc = "ready" /\ call = "parse_items"
  /\ ret' = parse_items(Catalogs[catIdx], arg)
  /\ pc' = "done"
  /\ UNCHANGED <<appVars, catIdx, call, arg, sessionVars>>

NextParse == CallParse \/ CallBestMatch \/ CallParseItems

SpecParse == InitParse /\ [][NextParse]_vars

\* ------------------------------------------------------------------------
\* Properties of the parser
\* ------------------------------------------------------------------------
Cat == Catalogs[catIdx]

ParseDone == call = "parse" /\ pc = "done"

BestMatchDone == call = "best_match" /\ pc = "done"

Abs(x) == IF x < 0 THEN -x ELSE x

RECURSIVE SumTotalPrice(_)
SumTotalPrice(items) ==
  IF items = <<>> THEN 0 ELSE items[1].total_price + SumTotalPrice(Tail(items))

\* the lines of the message that became drafts, in the order of the drafts
OrderLines(text) ==
  SelectSeq(SplitOn(Strip(text), {"\n"}), LAMBDA l : ParseLine(Cat, l).kind = "order")

\* the stubs parse_items made for a line, before reconciliation
StubsOfLine(l) ==
  LET m == OrderMatch(Strip(l))
  IN  IF m.g3 = <<>> THEN <<>> ELSE parse_items(Cat, m.g3)

\* the drafts returned, with the stubs each was reconciled from
Drafts ==
  IF ParseDone /\ ~ret.raised
  THEN {[order |-> ret.orders[k], stubs |-> StubsOfLine(OrderLines(arg)[k])] :
          k \in 1..Len(ret.orders)}
  ELSE {}

\* C1 (as claimed): every draft of parse_whatsapp_sales with at least one item
\* stub has item totals that sum to total_amount within 1
C1_SumLaw ==
  \A d \in Drafts :
     Len(d.stubs) >= 1 =>
        Abs(SumTotalPrice(d.order.items) - d.order.total_amount) <= 1

AllZeroPriced(stubs) ==
  Len(stubs) >= 1 /\ \A k \in 1..Len(stubs) : stubs[k].stub.unit_price = 0

\* C2: when every stub of an order has catalog unit_price 0, each item's
\* total_price is round(total_amount / n) and the totals are within 1 of each other
C2_EvenSplit ==
  \A d \in Drafts :
     AllZeroPriced(d.stubs) =>
        LET items == d.order.items
        IN  /\ Len(items) = Len(d.stubs)
            /\ \A k \in 1..Len(items) :
                  items[k].total_price = Round(d.order.total_amount, Len(items))
            /\ \A j, k \in 1..Len(items) :
                  Abs(items[j].total_price - items[k].total_price) <= 1

\* C2 witness: an even split over items of unequal quantity, the share a half
C2_Witness ==
  \E d \in Drafts :
     /\ AllZeroPriced(d.stubs) /\ Len(d.stubs) = 2
     /\ d.stubs[1].qty # d.stubs[2].qty
     /\ d.order.total_amount = 301
     /\ d.order.items[1].total_price = 150

\* the alias entries whose keyword occurs in the description
MatchingAliases(desc) ==
  {k \in 1..Len(PRODUCT_ALIASES) : IsSubstr(PRODUCT_ALIASES[k].alias, Strip(Lower(desc)))}

ProperSubstr(a, b) == Len(a) < Len(b) /\ IsSubstr(a, b)

\* C3 (as claimed): of two matching keywords, one inside the other, the
\* description resolves to the product of the longer one; of the matching
\* keywords of equal greatest length the first in table order is kept
C3_LongerWins ==
  BestMatchDone =>
     LET M == MatchingAliases(arg)
     IN  \A a, b \in M :
            ProperSubstr(PRODUCT_ALIASES[a].alias, PRODUCT_ALIASES[b].alias) =>
               ret.product_id = PRODUCT_ALIASES[b].pid

\* C3 (amended): the description resolves to the product of the longest
\* matching keyword, the first in table order among the longest, whenever
\* that product is in the catalog; a keyword inside a longer matching
\* keyword then never decides the product
C3_LongestWins ==
  BestMatchDone =>
     LET M == MatchingAliases(arg)
         len(k) == Len(PRODUCT_ALIASES[k].alias)
     IN  \A k \in M :
            /\ \A j \in M : len(j) < len(k) \/ (len(j) = len(k) /\ j >= k)
            /\ IndexOfId(Cat, PRODUCT_ALIASES[k].pid) # 0
            => /\ ret.product_id = PRODUCT_ALIASES[k].pid
               /\ ret.category = PRODUCT_ALIASES[k].cat
               /\ ret.confidence = "high"

\* C3 witness: "iced coffee" holds the keywords coffee and iced coffee and
\* resolves to p09
C3_Witness ==
  /\ BestMatchDone
  /\ arg = <<"i","c","e","d"," ","c","o","f","f","e","e">>
  /\ Cardinality(MatchingAliases(arg)) = 2
  /\ ret.product_id = "p09"

\* the description is in a substring relation with a catalog name
NameRelated(desc) ==
  \E i \in 1..Len(Cat) :
     \/ IsSubstr(Lower(Cat[i].name), Strip(Lower(desc)))
     \/ IsSubstr(Strip(Lower(desc)), Lower(Cat[i].name))

\* C4: a description with no alias keyword and in no substring relation with
\* a catalog name yields product_id None, unit_price 0, cost_ratio 0.40,
\* category Cafe and confidence low
C4_UnmatchedFallback ==
  BestMatchDone /\ MatchingAliases(arg) = {} /\ ~NameRelated(arg) =>
     /\ ret.product_id = "None"
     /\ ret.unit_price = 0
     /\ ret.cost_ratio = 40
     /\ ret.category = "Cafe"
     /\ ret.confidence = "low"

\* C4 witness: "take out" matches nothing
C4_Witness ==
  /\ BestMatchDone
  /\ arg = <<"t","a","k","e"," ","o","u","t">>
  /\ MatchingAliases(arg) = {} /\ ~NameRelated(arg)
  /\ ret.product_id = "None"

\* the spellings of the walk-in customer
WalkInSpellings ==
  {<<>>, <<"W","a","l","k","-","i","n">>, <<"w","a","l","k"," ","i","n">>, <<"W","A","L","K","-","I","N">>}

\* C6 (as claimed): an order line whose customer is "", "Walk-in", "walk in"
\* or "WALK-IN" yields a draft whose customer_name is exactly "Walk-in"
C6_WalkIn ==
  ParseDone /\ (\E c \in WalkInSpellings, p \in 1..Len(Separators), a \in 1..Len(AmountTexts) :
                   arg = OrderLine(c, Separators[p], AmountTexts[a], <<>>)) =>
     /\ ~ret.raised
     /\ Len(ret.orders) = 1
     /\ ret.orders[1].customer_name = WALK_IN

\* sum(qty * catalog price) over all the stubs equals the amount
TotalMatchesCatalog(d) ==
  /\ Len(d.stubs) >= 1
  /\ TotalDerived(d.stubs) = Frac(d.order.total_amount, 1)

\* C7 (as claimed): when the reported total equals the sum of quantity x
\* catalog price over the items, every unit_price stays the catalog price and
\* the item totals sum to the reported total; the line of Janet Johnson gives
\* one draft with one item p09, qty 2, 4840, 9680, cogs 1452 and 2904, high
C7_ExactTotal ==
  /\ \A d \in Drafts :
        TotalMatchesCatalog(d) =>
           /\ \A k \in 1..Len(d.stubs) :
                 d.order.items[k].unit_price = d.stubs[k].stub.unit_price
           /\ SumTotalPrice(d.order.items) = d.order.total_amount
  /\ ParseDone /\ arg = JANET_LINE /\ catIdx = 1 =>
        /\ ~ret.raised /\ Len(ret.orders) = 1
        /\ ret.orders[1].customer_name = <<"J","a","n","e","t"," ","J","o","h","n","s","o","n">>
        /\ ret.orders[1].total_amount = 9680
        /\ Len(ret.orders[1].items) = 1
        /\ LET it == ret.orders[1].items[1]
           IN  /\ it.product_id = "p09" /\ it.qty = Frac(2, 1)
               /\ it.unit_price = 4840 /\ it.total_price = 9680
               /\ it.unit_cogs = 1452 /\ it.total_cogs = 2904
               /\ it.confidence = "high"

\* C8: the line of Deborah resolves to p13 (qty 1) and p10 (qty 2), the known
\* total is 14287, each unit_price is round(catalog price x 13440 / 14287)
\* and the item totals sum to 13440 within 1
C8_Deborah ==
  ParseDone /\ arg = DEBORAH_LINE =>
     /\ ~ret.raised /\ Len(ret.orders) = 1
     /\ ret.orders[1].total_amount = 13440
     /\ TotalDerived(StubsOfLine(arg)) = Frac(14287, 1)
     /\ LET items == ret.orders[1].items
        IN  /\ Len(items) = 2
            /\ items[1].product_id = "p13" /\ items[1].qty = Frac(1, 1)
            /\ items[2].product_id = "p10" /\ items[2].qty = Frac(2, 1)
            /\ items[1].unit_price = Round(6757 * 13440, 14287)
            /\ items[2].unit_price = Round(3765 * 13440, 14287)
            /\ Abs(SumTotalPrice(items) - 13440) <= 1

\* C8 witness: the line of Deborah parsed, with the prices 6356 and 3542
C8_Witness ==
  /\ ParseDone /\ arg = DEBORAH_LINE
  /\ ret.orders[1].items[1].unit_price = 6356
  /\ ret.orders[1].items[2].unit_price = 3542

\* ------------------------------------------------------------------------
\* The import tab of main: one action is one run of the script
\* ------------------------------------------------------------------------
PAYMENT_METHODS == <<"Opay", "Bank Transfer", "Cash", "POS", "Other">>

ORDER_TYPES == <<"Dine-in", "Take-out", "Delivery">>

\* the index of the first occurrence of x in the list (0: not in the list)
IndexIn(list, x) ==
  LET at == {i \in 1..Len(list) : list[i] = x}
  IN  IF at = {} THEN 0 ELSE Min(at)

\* cur_idx: the position of the item's product_name among the catalog names
\* of prod_options; 0 is the option "unmatched"
CurIdx(cat, item) ==
  IndexIn([i \in 1..Len(cat) |-> cat[i].name], item.product_name)

\* lines 1320-1327: a selected product re-seeds the name, id, channel,
\* category and cost_ratio of the item from the first row with that name
ReseedProduct(cat, item, sel) ==
  IF sel = 0 THEN item
  ELSE LET row == cat[IndexIn([i \in 1..Len(cat) |-> cat[i].name], cat[sel].name)]
       IN  [item EXCEPT !.product_name = row.name, !.product_id = row.id,
                        !.channel = row.channel, !.category = row.channel,
                        !.cost_ratio = row.cost_ratio]

RecomputeStaleCogs(item, qty, unit_price) ==
  [item EXCEPT !.qty = qty, !.unit_price = unit_price,
               !.total_price = Round(qty.n * unit_price, qty.d),
               !.unit_cogs = RoundProduct(unit_price, item.cost_ratio, 100),
               !.total_cogs = Round(item.unit_cogs * qty.n, qty.d)]

\* lines 1331-1337: qty and unit_price from the widgets, then the totals
Recompute(item, qty, unit_price) ==
  LET uc == RoundProduct(unit_price, item.cost_ratio, 100)
  IN  [item EXCEPT !.qty = qty, !.unit_price = unit_price,
                   !.total_price = Round(qty.n * unit_price, qty.d),
                   !.unit_cogs = uc,
                   !.total_cogs = Round(uc * qty.n, qty.d)]

BalanceNoteSigned(order) ==
  IF order.total_amount - SumTotalPrice(order.items) > 1 THEN "warning" ELSE "success"

\* lines 1344-1349: the warning or the success message under an order
BalanceNote(order) ==
  IF Abs(order.total_amount - SumTotalPrice(order.items)) > 1 THEN "warning" ELSE "success"

BalanceNotes(orders) == [oi \in 1..Len(orders) |-> BalanceNote(orders[oi])]

\* what the operator can put into the widgets of the review screen
QtyChoices == <<Frac(3, 1), Frac(1, 2)>>

PriceChoices == <<0, 5000>>

CustomerChoices == << <<"A","d","a">>, <<>> >>

\* the rows of the catalog offered in the product box, besides "unmatched"
EditProducts == {"p13"}

\* the payment methods and order types tried in the header boxes
EditPayments == {"Other"}

EditTypes == {"Delivery"}

ProductChoices(cat) == {0} \cup {i \in 1..Len(cat) : cat[i].id \in EditProducts}

\* the widget changes possible on the drafts
ItemEditsAt(cat, oi, ii) ==
  {[kind |-> "item", oi |-> oi, ii |-> ii, field |-> "product", value |-> v] :
      v \in ProductChoices(cat)}
  \cup {[kind |-> "item", oi |-> oi, ii |-> ii, field |-> "qty", value |-> v] :
      v \in 1..Len(QtyChoices)}
  \cup {[kind |-> "item", oi |-> oi, ii |-> ii, field |-> "unit_price", value |-> v] :
      v \in 1..Len(PriceChoices)}

HeaderEditsAt(oi) ==
  {[kind |-> "header", oi |-> oi, ii |-> 0, field |-> "customer_name", value |-> v] :
      v \in 1..Len(CustomerChoices)}
  \cup {[kind |-> "header", oi |-> oi, ii |-> 0, field |-> "payment_method", value |-> v] :
      v \in {i \in 1..Len(PAYMENT_METHODS) : PAYMENT_METHODS[i] \in EditPayments}}
  \cup {[kind |-> "header", oi |-> oi, ii |-> 0, field |-> "order_type", value |-> v] :
      v \in {i \in 1..Len(ORDER_TYPES) : ORDER_TYPES[i] \in EditTypes}}

Edits(cat, orders) ==
  UNION {HeaderEditsAt(oi) \cup UNION {ItemEditsAt(cat, oi, ii) : ii \in 1..Len(orders[oi].items)} :
           oi \in 1..Len(orders)}

RenderItemSharedKey(cat, item, oi, ii, e) ==
  LET mine(f) == e.kind = "item" /\ e.oi = oi /\ e.field = f
      sel == IF mine("product") THEN e.value ELSE CurIdx(cat, item)
      seeded == ReseedProduct(cat, item, sel)
      qty == IF mine("qty") THEN QtyChoices[e.value] ELSE seeded.qty
      up == IF mine("unit_price") THEN PriceChoices[e.value] ELSE seeded.unit_price
  IN  Recompute(seeded, qty, up)

\* lines 1313-1337 on one item: a widget returns the draft's value unless the
\* operator changed it in this run
RenderItem(cat, item, oi, ii, e) ==
  LET mine(f) == e.kind = "item" /\ e.oi = oi /\ e.ii = ii /\ e.field = f
      sel == IF mine("product") THEN e.value ELSE CurIdx(cat, item)
      seeded == ReseedProduct(cat, item, sel)
      qty == IF mine("qty") THEN QtyChoices[e.value] ELSE seeded.qty
      up == IF mine("unit_price") THEN PriceChoices[e.value] ELSE seeded.unit_price
  IN  Recompute(seeded, qty, up)

RenderOrderSharedKey(cat, order, oi, e) ==
  LET mine(f) == e.kind = "header" /\ e.field = f
      pay == IF IndexIn(PAYMENT_METHODS, order.payment_method) # 0
             THEN order.payment_method ELSE PAYMENT_METHODS[1]
      typ == IF IndexIn(ORDER_TYPES, order.order_type) # 0
             THEN order.order_type ELSE ORDER_TYPES[1]
  IN  [order EXCEPT
         !.customer_name = IF mine("customer_name") THEN CustomerChoices[e.value] ELSE @,
         !.payment_method = IF mine("payment_method") THEN PAYMENT_METHODS[e.value] ELSE pay,
         !.order_type = IF mine("order_type") THEN ORDER_TYPES[e.value] ELSE typ,
         !.items = [ii \in 1..Len(order.items) |-> RenderItem(cat, order.items[ii], oi, ii, e)]]

\* lines 1299-1337 on one order: the header widgets, then the items
RenderOrder(cat, order, oi, e) ==
  LET mine(f) == e.kind = "header" /\ e.oi = oi /\ e.field = f
      pay == IF IndexIn(PAYMENT_METHODS, order.payment_method) # 0
             THEN order.payment_method ELSE PAYMENT_METHODS[1]
      typ == IF IndexIn(ORDER_TYPES, order.order_type) # 0
             THEN order.order_type ELSE ORDER_TYPES[1]
  IN  [order EXCEPT
         !.customer_name = IF mine("customer_name") THEN CustomerChoices[e.value] ELSE @,
         !.payment_method = IF mine("payment_method") THEN PAYMENT_METHODS[e.value] ELSE pay,
         !.order_type = IF mine("order_type") THEN ORDER_TYPES[e.value] ELSE typ,
         !.items = [ii \in 1..Len(order.items) |-> RenderItem(cat, order.items[ii], oi, ii, e)]]

\* lines 1291-1349: the review loop writes every widget back into the drafts
RenderAll(cat, orders, e) ==
  [oi \in 1..Len(orders) |-> RenderOrder(cat, orders[oi], oi, e)]

\* lines 1260-1262
WithDefaultPayment(orders, default_payment) ==
  [k \in 1..Len(orders) |->
     IF orders[k].payment_method = "Bank Transfer"
     THEN [orders[k] EXCEPT !.payment_method = default_payment]
     ELSE orders[k]]

\* _upsert_customer: INSERT OR IGNORE of a name that is not a walk-in
UpsertCustomer(names, name) ==
  IF name # <<>> /\ Lower(name) \notin {<<"w","a","l","k","-","i","n">>,
                                        <<"d","a","i","l","y"," ","b","a","t","c","h">>, <<>>}
  THEN names \cup {name} ELSE names

\* the rows and names the statements of save_parsed_orders have written when
\* the loop has gone through the first k orders
RECURSIVE Inserted(_, _, _, _)
Inserted(table, names, orders, k) ==
  IF k = 0 THEN [table |-> table, names |-> names]
  ELSE LET before == Inserted(table, names, orders, k - 1)
       IN  [table |-> Append(before.table, [src |-> <<batch_no, k>>, order |-> orders[k]]),
            names |-> UpsertCustomer(before.names, orders[k].customer_name)]

save_per_order_commit(table, names, orders, fail_at) ==
  IF fail_at = 0
  THEN [raised |-> FALSE] @@ Inserted(table, names, orders, Len(orders))
  ELSE [raised |-> TRUE] @@ Inserted(table, names, orders, fail_at - 1)

\* save_parsed_orders: one connection, one commit after the loop; when the
\* statement of order fail_at raises (0: none does) the connection is closed
\* without a commit and nothing of the batch stays
save_parsed_orders(table, names, orders, fail_at) ==
  IF fail_at = 0
  THEN [raised |-> FALSE] @@ Inserted(table, names, orders, Len(orders))
  ELSE [raised |-> TRUE, table |-> table, names |-> names]

\* the texts pasted into the text area
TWO_ORDERS_TEXT == JANET_LINE \o <<"\n">> \o TEMITOPE_LINE

NO_ORDERS_TEXT == <<"T","o","t","a","l",":"," ","#","2","7",",","4","2","0">>

ZERO_QTY_LINE == OrderLine(Customers[1], Separators[1], AmountTexts[3], Phrases[9])

BLANK_TEXT == <<" ", "\n">>

\* three of an item without a price for an amount that 3 does not divide
EVEN_SPLIT_LINE == OrderLine(Customers[1], Separators[1], AmountTexts[5], Phrases[5])

SessionTexts == {TWO_ORDERS_TEXT, NO_ORDERS_TEXT, ZERO_QTY_LINE, BLANK_TEXT}

\* the texts pasted in the sessions in which no widget is touched
UneditedTexts == SessionTexts \cup {EVEN_SPLIT_LINE}

\* parse_whatsapp_sales on the texts of the session, for each catalog
SessionParses ==
  [c \in 1..Len(Catalogs) |-> [t \in UneditedTexts |-> parse_whatsapp_sales(Catalogs[c], t)]]

\* the default payment method: the first of the select box
DefaultPayments == {"Opay"}

\* the bounds of the session: review edits, parses that store drafts, and
\* rows in the orders table
MaxEdits == 1

MaxBatches == 2

MaxRows == 4

Init ==
  /\ catIdx \in 1..Len(Catalogs)
  /\ call = "none" /\ arg = <<>> /\ pc = "idle" /\ ret = <<>>
  /\ SessionInit
  /\ AppSeeded

\* the drafts after the review loop of a run without a widget change
Reviewed(orders) == RenderAll(Cat, orders, NoEdit)

ParseRunStoresEmpty(text, default_payment, r) ==
  /\ pc = "idle"
  /\ IF Strip(text) = <<>>
     THEN /\ notice' = "paste_first"
          /\ parsed_orders' = Reviewed(parsed_orders)
          /\ UNCHANGED <<has_parsed, batch_no>>
     ELSE IF r.raised
     THEN /\ notice' = "exception"
          /\ UNCHANGED <<has_parsed, parsed_orders, batch_no>>
     ELSE /\ batch_no < MaxBatches
          /\ notice' = "parsed"
          /\ has_parsed' = TRUE
          /\ parsed_orders' = Reviewed(WithDefaultPayment(r.orders, default_payment))
          /\ batch_no' = batch_no + 1
  /\ ended' = IF notice' = "parsed" THEN "none" ELSE ended
  /\ balance_notes' = IF notice' = "exception" THEN <<>> ELSE BalanceNotes(parsed_orders')
  /\ last_parse' = [clicked |-> TRUE, text |-> text, default_payment |-> default_payment]
  /\ last_edit' = NoEdit /\ edit_repeats' = FALSE /\ last_save' = NoSave
  /\ UNCHANGED <<appVars, catIdx, callVars, orders_table, customers, edit_count>>

\* lines 1256-1268 and the review loop after them, r the drafts returned by
\* parse_whatsapp_sales
ParseRun(text, default_payment, r) ==
  /\ pc = "idle"
  /\ IF Strip(text) = <<>>
     THEN /\ notice' = "paste_first"
          /\ parsed_orders' = Reviewed(parsed_orders)
          /\ UNCHANGED <<has_parsed, batch_no>>
     ELSE IF r.raised
     THEN /\ notice' = "exception"
          /\ UNCHANGED <<has_parsed, parsed_orders, batch_no>>
     ELSE IF r.orders # <<>>
     THEN /\ batch_no < MaxBatches
          /\ notice' = "parsed"
          /\ has_parsed' = TRUE
          /\ parsed_orders' = Reviewed(WithDefaultPayment(r.orders, default_payment))
          /\ batch_no' = batch_no + 1
     ELSE /\ notice' = "no_orders"
          /\ parsed_orders' = Reviewed(parsed_orders)
          /\ UNCHANGED <<has_parsed, batch_no>>
  /\ ended' = IF notice' = "parsed" THEN "none" ELSE ended
  /\ balance_notes' = IF notice' = "exception" THEN <<>> ELSE BalanceNotes(parsed_orders')
  /\ last_parse' = [clicked |-> TRUE, text |-> text, default_payment |-> default_payment]
  /\ last_edit' = NoEdit /\ edit_repeats' = FALSE /\ last_save' = NoSave
  /\ UNCHANGED <<appVars, catIdx, callVars, orders_table, customers, edit_count>>

\* the Parse button
ParseClick(text, default_payment) ==
  ParseRun(text, default_payment, SessionParses[catIdx][text])

\* a run started by a changed widget of the review screen
ReviewEdit(e) ==
  /\ pc = "idle" /\ has_parsed
  /\ e = last_edit \/ edit_count < MaxEdits
  /\ parsed_orders' = RenderAll(Cat, parsed_orders, e)
  /\ last_edit' = e
  /\ edit_count' = IF e = last_edit THEN edit_count ELSE edit_count + 1
  /\ edit_repeats' = (e = last_edit)
  /\ notice' = "none"
  /\ balance_notes' = BalanceNotes(parsed_orders')
  /\ last_save' = NoSave /\ last_parse' = NoParse
  /\ UNCHANGED <<appVars, catIdx, callVars, has_parsed, orders_table, customers, batch_no, ended>>

SaveClickNoPop(fail_at) ==
  LET drafts == Reviewed(parsed_orders)
      r == save_parsed_orders(orders_table, customers, drafts, fail_at)
  IN  /\ pc = "idle" /\ has_parsed
      /\ Len(orders_table) + Len(parsed_orders) <= MaxRows
      /\ orders_table' = r.table
      /\ customers' = r.names
      /\ last_save' = [batch |-> batch_no, n |-> Len(drafts), fail_at |-> fail_at]
      /\ notice' = IF r.raised THEN "save_failed" ELSE "saved"
      /\ parsed_orders' = drafts
      /\ ended' = IF r.raised THEN ended ELSE "committed"
      /\ balance_notes' = BalanceNotes(drafts)
      /\ last_edit' = NoEdit /\ edit_repeats' = FALSE /\ last_parse' = NoParse
      /\ UNCHANGED <<appVars, catIdx, callVars, has_parsed, batch_no, edit_count>>

\* lines 1354-1358 after the review loop: the Save button; an exception of
\* save_parsed_orders ends the run before the pop
SaveClick(fail_at) ==
  LET drafts == Reviewed(parsed_orders)
      r == save_parsed_orders(orders_table, customers, drafts, fail_at)
  IN  /\ pc = "idle" /\ has_parsed
      /\ Len(orders_table) + Len(parsed_orders) <= MaxRows
      /\ orders_table' = r.table
      /\ customers' = r.names
      /\ last_save' = [batch |-> batch_no, n |-> Len(drafts), fail_at |-> fail_at]
      /\ IF r.raised
         THEN /\ notice' = "save_failed"
              /\ parsed_orders' = drafts
              /\ balance_notes' = BalanceNotes(drafts)
              /\ UNCHANGED <<has_parsed, ended>>
         ELSE /\ notice' = "saved"
              /\ parsed_orders' = <<>>
              /\ has_parsed' = FALSE
              /\ ended' = "committed"
              /\ balance_notes' = <<>>
      /\ last_edit' = NoEdit /\ edit_repeats' = FALSE /\ last_parse' = NoParse
      /\ UNCHANGED <<appVars, catIdx, callVars, batch_no, edit_count>>

DiscardClickNoPop ==
  /\ pc = "idle" /\ has_parsed
  /\ parsed_orders' = Reviewed(parsed_orders)
  /\ notice' = "none"
  /\ ended' = "discarded"
  /\ balance_notes' = BalanceNotes(parsed_orders')
  /\ last_edit' = NoEdit /\ edit_repeats' = FALSE /\ last_save' = NoSave
  /\ last_parse' = NoParse
  /\ UNCHANGED <<appVars, catIdx, callVars, has_parsed, orders_table, customers, batch_no, edit_count>>

\* lines 1360-1362: the Discard button
DiscardClick ==
  /\ pc = "idle" /\ has_parsed
  /\ has_parsed' = FALSE
  /\ parsed_orders' = <<>>
  /\ notice' = "none"
  /\ ended' = "discarded"
  /\ balance_notes' = <<>>
  /\ last_edit' = NoEdit /\ edit_repeats' = FALSE /\ last_save' = NoSave
  /\ last_parse' = NoParse
  /\ UNCHANGED <<appVars, catIdx, callVars, orders_table, customers, batch_no, edit_count>>

Next ==
  \/ \E text \in SessionTexts, dp \in DefaultPayments : ParseClick(text, dp)
  \/ \E e \in Edits(Cat, parsed_orders) : ReviewEdit(e)
  \/ \E fail_at \in 0..Len(parsed_orders) : SaveClick(fail_at)
  \/ DiscardClick

Spec == Init /\ [][Next]_vars

\* the sessions in which the operator parses, saves and discards and never
\* touches a widget of the review screen
NextUnedited ==
  \/ \E text \in UneditedTexts, dp \in DefaultPayments : ParseClick(text, dp)
  \/ \E fail_at \in 0..Len(parsed_orders) : SaveClick(fail_at)
  \/ DiscardClick

SpecUnedited == Init /\ [][NextUnedited]_vars

\* ------------------------------------------------------------------------
\* Page runs over the database: login, manual entry, orders and expenses
\* ------------------------------------------------------------------------
MaxManualItems == 2

\* the passwords typed into the forms
Passwords ==
  { SeedPassword,
    <<"k","o","k","a","r","i","2","0","2","7">>,
    <<"c","a","f","e">> }

\* the order headers the operator sets
Headers ==
  { [set |-> TRUE, date |-> "2026-03-01", customer |-> "Ada", note |-> ""] }

\* the items the operator adds (the fields the order total is made of)
ManualItems ==
  { [product_id |-> "p10", qty |-> 2, unit_price |-> 3765, total_price |-> 7530] }

\* what the operator types into the Quick Expense form
QuickExpenses ==
  { [date |-> "2026-03-01", name |-> "Gas", category |-> "Utilities",
     amount |-> 5000, note |-> ""],
    [date |-> "2026-03-01", name |-> "Gas", category |-> "Utilities",
     amount |-> 0, note |-> ""],
    SeedExpense(expenses[1]) }

RECURSIVE SumTotal(_)
SumTotal(items) ==
  IF items = <<>> THEN 0 ELSE Head(items).total_price + SumTotal(Tail(items))

\* verify_login: the role of the users row with that name and digest, or None
verify_login(d, username, password) ==
  LET rows == {u \in d.users : u.username = username /\ u.password = hash_pw(password)}
  IN  IF rows = {} THEN "None" ELSE (CHOOSE u \in rows : TRUE).role

\* change_password: the UPDATE of users
change_password(d, username, new_password) ==
  [d EXCEPT !.users = {IF u.username = username
                       THEN [u EXCEPT !.password = hash_pw(new_password)]
                       ELSE u : u \in d.users}]

\* save_single_order: the INSERT into orders (and of its order_items)
save_single_order(d, o) ==
  [d EXCEPT !.orders = @ \cup {OrderRow(d.seq.orders + 1, o)},
            !.seq.orders = @ + 1]

\* add_expense: the INSERT into transactions
add_expense(d, e) ==
  [d EXCEPT !.transactions = @ \cup {ExpenseRow(d.seq.transactions + 1, e)},
            !.seq.transactions = @ + 1]

\* delete_order: the DELETE of the order (and of its order_items)
delete_order(d, oid) == [d EXCEPT !.orders = {r \in @ : r.id # oid}]

\* delete_expense
delete_expense(d, tid) == [d EXCEPT !.transactions = {r \in @ : r.id # tid}]

\* bust(): every st.cache_data result is dropped
Bust == channels_cache' = NoCache /\ products_cache' = NoCache

\* the import tab of a run in which no widget of the import changed: the
\* review loop rewrites the drafts it shows
ImportTabRun ==
  /\ parsed_orders' = IF has_parsed THEN Reviewed(parsed_orders) ELSE parsed_orders
  /\ balance_notes' = IF has_parsed THEN BalanceNotes(parsed_orders') ELSE balance_notes
  /\ notice' = "none"
  /\ last_edit' = NoEdit /\ edit_repeats' = FALSE /\ last_save' = NoSave
  /\ last_parse' = NoParse
  /\ UNCHANGED <<has_parsed, orders_table, customers, batch_no, edit_count, ended>>

\* a run of the script by any session: main() calls init_db and renders
PageRun ==
  /\ pc = "idle"
  /\ db' = init_db(db)
  /\ call' = "init_db" /\ arg' = <<>>
  /\ UNCHANGED <<catIdx, pc, ret, sessionVars, removed, logged_in, manual_items,
                 order_header, channels_cache, products_cache, runs>>

\* the Sign In button of login_screen
LoginClick(p) ==
  /\ pc = "idle" /\ db.ready /\ ~logged_in
  /\ db' = init_db(db)
  /\ call' = "verify_login" /\ arg' = p
  /\ logged_in' = (verify_login(db', "admin", p) # "None")
  /\ UNCHANGED <<catIdx, pc, ret, sessionVars, removed, manual_items,
                 order_header, channels_cache, products_cache, runs>>

\* the Sign Out button of the sidebar: the keys of lines 1110-1111 are popped
SignOutClick ==
  /\ pc = "idle" /\ db.ready /\ logged_in
  /\ db' = init_db(db)
  /\ call' = "none" /\ arg' = <<>>
  /\ logged_in' = FALSE
  /\ has_parsed' = FALSE /\ parsed_orders' = <<>> /\ balance_notes' = <<>>
  /\ manual_items' = <<>>
  /\ order_header' = NoHeader
  /\ notice' = "none"
  /\ ended' = IF has_parsed THEN "signed_out" ELSE ended
  /\ last_edit' = NoEdit /\ edit_repeats' = FALSE /\ last_save' = NoSave
  /\ last_parse' = NoParse
  /\ UNCHANGED <<catIdx, pc, ret, orders_table, customers, batch_no, edit_count,
                 removed, channels_cache, products_cache, runs>>

\* the Update Password button of the settings tab
PasswordChange(cp, np1, np2) ==
  LET ok == /\ verify_login(init_db(db), "admin", cp) # "None"
            /\ np1 = np2
            /\ Len(np1) >= 6
  IN  /\ pc = "idle" /\ db.ready /\ logged_in
      /\ db' = IF ok THEN change_password(init_db(db), "admin", np1) ELSE init_db(db)
      /\ call' = IF ok THEN "change_password" ELSE "verify_login"
      /\ arg' = IF ok THEN np1 ELSE cp
      /\ logged_in' = ~ok
      /\ ImportTabRun
      /\ UNCHANGED <<catIdx, pc, ret, removed, manual_items, order_header,
                     channels_cache, products_cache, runs>>

\* the Set Order Header button
SetHeaderClick(h) ==
  /\ pc = "idle" /\ db.ready /\ logged_in
  /\ db' = init_db(db)
  /\ call' = "none" /\ arg' = <<>>
  /\ order_header' = h
  /\ ImportTabRun
  /\ UNCHANGED <<catIdx, pc, ret, removed, logged_in, manual_items,
                 channels_cache, products_cache, runs>>

\* the Add to Order button
AddItemClick(it) ==
  /\ pc = "idle" /\ db.ready /\ logged_in
  /\ order_header.set
  /\ Len(manual_items) < MaxManualItems
  /\ db' = init_db(db)
  /\ call' = "none" /\ arg' = <<>>
  /\ manual_items' = Append(manual_items, it)
  /\ ImportTabRun
  /\ UNCHANGED <<catIdx, pc, ret, removed, logged_in, order_header,
                 channels_cache, products_cache, runs>>

\* the order that Save Order hands to save_single_order
ManualOrder ==
  [date |-> order_header.date, customer_name |-> order_header.customer,
   total_amount |-> SumTotal(manual_items), note |-> order_header.note]

\* the Save Order button
SaveOrderClick ==
  /\ pc = "idle" /\ db.ready /\ logged_in
  /\ order_header.set /\ manual_items # <<>>
  /\ Cardinality(db.orders) < MaxRows /\ db.seq.orders < MaxRowId
  /\ db' = save_single_order(init_db(db), ManualOrder)
  /\ call' = "save_single_order" /\ arg' = ManualOrder
  /\ removed' = [removed EXCEPT !.orders = @ \ {ManualOrder}]
  /\ order_header' = NoHeader
  /\ manual_items' = <<>>
  /\ Bust
  /\ ImportTabRun
  /\ UNCHANGED <<catIdx, pc, ret, logged_in, runs>>

\* the Clear Items button
ClearItemsClick ==
  /\ pc = "idle" /\ db.ready /\ logged_in
  /\ order_header.set /\ manual_items # <<>>
  /\ db' = init_db(db)
  /\ call' = "none" /\ arg' = <<>>
  /\ manual_items' = <<>>
  /\ ImportTabRun
  /\ UNCHANGED <<catIdx, pc, ret, removed, logged_in, order_header,
                 channels_cache, products_cache, runs>>

\* the Cancel Order button
CancelOrderClick ==
  /\ pc = "idle" /\ db.ready /\ logged_in
  /\ order_header.set /\ manual_items # <<>>
  /\ db' = init_db(db)
  /\ call' = "none" /\ arg' = <<>>
  /\ order_header' = NoHeader
  /\ manual_items' = <<>>
  /\ ImportTabRun
  /\ UNCHANGED <<catIdx, pc, ret, removed, logged_in,
                 channels_cache, products_cache, runs>>

\* the Remove Selected Item button
RemoveItemClick(i) ==
  /\ pc = "idle" /\ db.ready /\ logged_in
  /\ order_header.set /\ i \in 1..Len(manual_items)
  /\ db' = init_db(db)
  /\ call' = "none" /\ arg' = <<>>
  /\ manual_items' = SubSeq(manual_items, 1, i - 1) \o
                     SubSeq(manual_items, i + 1, Len(manual_items))
  /\ ImportTabRun
  /\ UNCHANGED <<catIdx, pc, ret, removed, logged_in, order_header,
                 channels_cache, products_cache, runs>>

\* the Save Expense button of the sidebar
QuickExpenseClick(e) ==
  LET d == init_db(db)
  IN  /\ pc = "idle" /\ db.ready /\ logged_in
      /\ db.seq.transactions < MaxRowId
      /\ call' = "add_expense" /\ arg' = e
      /\ IF e.amount > 0 /\ e.name # ""
         THEN /\ db' = add_expense(d, e)
              /\ removed' = [removed EXCEPT !.transactions = @ \ {e}]
              /\ Bust
         ELSE /\ db' = d
              /\ UNCHANGED <<removed, channels_cache, products_cache>>
      /\ ImportTabRun
      /\ UNCHANGED <<catIdx, pc, ret, logged_in, manual_items, order_header, runs>>

\* the contents that leave the table with the row oid
Gone(rows, id, Content(_)) ==
  {Content(r) : r \in {x \in rows : x.id = id}} \
  {Content(r) : r \in {x \in rows : x.id # id}}

\* the Delete Order button, on an order the orders tab shows
DeleteOrderClick(oid) ==
  LET d == init_db(db)
  IN  /\ pc = "idle" /\ db.ready /\ logged_in
      /\ \E r \in d.orders : r.id = oid
      /\ Cardinality(d.orders) > 1 \/ d.seq.orders + MaxSeedRows <= MaxRowId
      /\ db' = delete_order(d, oid)
      /\ call' = "delete_order" /\ arg' = oid
      /\ removed' = [removed EXCEPT !.orders = @ \cup Gone(d.orders, oid, OrderContent)]
      /\ Bust
      /\ ImportTabRun
      /\ UNCHANGED <<catIdx, pc, ret, logged_in, manual_items, order_header, runs>>

\* the Delete Expense button, on an id the expenses tab shows
DeleteExpenseClick(tid) ==
  LET d == init_db(db)
  IN  /\ pc = "idle" /\ db.ready /\ logged_in
      /\ \E r \in d.transactions : r.id = tid
      /\ Cardinality(d.transactions) > 1 \/ d.seq.transactions + MaxSeedRows <= MaxRowId
      /\ db' = delete_expense(d, tid)
      /\ call' = "delete_expense" /\ arg' = tid
      /\ removed' = [removed EXCEPT !.transactions =
                       @ \cup Gone(d.transactions, tid, ExpenseContent)]
      /\ Bust
      /\ ImportTabRun
      /\ UNCHANGED <<catIdx, pc, ret, logged_in, manual_items, order_header, runs>>

\* the database file does not exist yet and nobody is logged in
InitStore ==
  /\ catIdx = 1
  /\ call = "none" /\ arg = <<>> /\ pc = "idle" /\ ret = <<>>
  /\ SessionInit
  /\ db = NoDb
  /\ removed = [orders |-> {}, transactions |-> {}]
  /\ logged_in = FALSE
  /\ manual_items = <<>>
  /\ order_header = NoHeader
  /\ channels_cache = NoCache
  /\ products_cache = NoCache
  /\ runs = [s \in Sessions |-> Idle]

NextStore ==
  \/ PageRun
  \/ \E p \in Passwords : LoginClick(p)
  \/ \E e \in QuickExpenses : QuickExpenseClick(e)
  \/ \E oid \in 1..MaxRowId : DeleteOrderClick(oid)
  \/ \E tid \in 1..MaxRowId : DeleteExpenseClick(tid)

SpecStore == InitStore /\ [][NextStore]_vars

\* the texts parsed in the sessions that log in and out
AuthTexts == {TWO_ORDERS_TEXT}

NextAuth ==
  \/ \E p \in Passwords : LoginClick(p)
  \/ SignOutClick
  \/ \E cp \in Passwords, np1 \in Passwords, np2 \in Passwords :
       PasswordChange(cp, np1, np2)
  \/ \E text \in AuthTexts, dp \in DefaultPayments :
       logged_in /\ ParseClick(text, dp)
  \/ logged_in /\ DiscardClick
  \/ \E h \in Headers : SetHeaderClick(h)
  \/ \E it \in ManualItems : AddItemClick(it)
  \/ SaveOrderClick
  \/ ClearItemsClick
  \/ CancelOrderClick
  \/ \E i \in 1..MaxManualItems : RemoveItemClick(i)

InitAuth ==
  /\ catIdx = 1
  /\ call = "none" /\ arg = <<>> /\ pc = "idle" /\ ret = <<>>
  /\ SessionInit
  /\ db = init_db(NoDb)
  /\ removed = [orders |-> {}, transactions |-> {}]
  /\ logged_in = FALSE
  /\ manual_items = <<>>
  /\ order_header = NoHeader
  /\ channels_cache = NoCache
  /\ products_cache = NoCache
  /\ runs = [s \in Sessions |-> Idle]

SpecAuth == InitAuth /\ [][NextAuth]_vars

\* ------------------------------------------------------------------------
\* Channels and products under concurrent sessions
\* ------------------------------------------------------------------------
\* the channel names typed into the Add Channel form
NewChannelNames == {"Catering", "Retail"}

\* the product names typed into the Add Product form
NewProductNames == {"Chin Chin", "Kunu"}

\* add_product's id: "u" and eight digits of the hash of the name and the day
ProductId(name) == IF name = "Chin Chin" THEN "u59883814" ELSE "u20417736"

\* load_channels under st.cache_data: the kept result, or the ids read now
load_channels(d) ==
  IF channels_cache # NoCache THEN channels_cache[1]
  ELSE {c.id : c \in d.channels}

\* load_products under st.cache_data: the kept result, or the rows read now
load_products(d) ==
  IF products_cache # NoCache THEN products_cache[1] ELSE d.products

\* add_channel: INSERT OR IGNORE under the UNIQUE name
add_channel(d, name) ==
  IF \E c \in d.channels : c.name = name THEN d
  ELSE [d EXCEPT !.channels = @ \cup {[id |-> d.seq.channels + 1, name |-> name]},
                 !.seq.channels = @ + 1]

\* add_product's INSERT; a second row of the same id raises IntegrityError
add_product(d, name, channel_id) ==
  IF \E p \in d.products : p.id = ProductId(name) THEN d
  ELSE [d EXCEPT !.products =
          @ \cup {[id |-> ProductId(name), channel_id |-> channel_id]}]

\* update_product's UPDATE of the row pid
update_product(d, pid, channel_id) ==
  [d EXCEPT !.products = {IF p.id = pid THEN [p EXCEPT !.channel_id = channel_id]
                          ELSE p : p \in @}]

\* the loop of Save Changes over the rows of all_prods
RECURSIVE UpdateAll(_, _)
UpdateAll(d, rows) ==
  IF rows = {} THEN d
  ELSE LET r == CHOOSE x \in rows : TRUE
       IN  UpdateAll(update_product(d, r.id, r.channel_id), rows \ {r})

\* the SELECT COUNT(*) of delete_channel
Used(d, cid) == Cardinality({p \in d.products : p.channel_id = cid})

\* the Add Channel button: one run that calls add_channel
AddChannelClick(s, name) ==
  /\ pc = "idle" /\ logged_in /\ runs[s] = Idle
  /\ db.seq.channels < MaxChannelId
  /\ db' = add_channel(init_db(db), name)
  /\ call' = "add_channel"
  /\ Bust
  /\ UNCHANGED <<catIdx, arg, pc, ret, sessionVars, removed, logged_in,
                 manual_items, order_header, runs>>

\* a run with a click on Delete reaches line 1731: channels_df is loaded
ChannelsTabLoad(s) ==
  /\ pc = "idle" /\ logged_in /\ runs[s] = Idle
  /\ db' = init_db(db)
  /\ channels_cache' = <<load_channels(db')>>
  /\ runs' = [runs EXCEPT ![s] = [at |-> "channels_tab", ch_ids |-> channels_cache'[1]]]
  /\ UNCHANGED <<catIdx, callVars, sessionVars, removed, logged_in,
                 manual_items, order_header, products_cache>>

\* delete_channel up to its SELECT COUNT(*), for a row of channels_df
DeleteChannelCount(s, cid) ==
  /\ pc = "idle" /\ runs[s].at = "channels_tab"
  /\ cid \in runs[s].ch_ids
  /\ runs' = [runs EXCEPT ![s] = [at |-> "delete_channel", cid |-> cid,
                                  used |-> Used(db, cid)]]
  /\ UNCHANGED <<catIdx, callVars, sessionVars, db, removed, logged_in,
                 manual_items, order_header, channels_cache, products_cache>>

\* the rest of delete_channel: return False, or DELETE, commit and bust()
DeleteChannelFinish(s) ==
  /\ pc = "idle" /\ runs[s].at = "delete_channel"
  /\ runs' = [runs EXCEPT ![s] = Idle]
  /\ call' = "delete_channel"
  /\ IF runs[s].used > 0
     THEN UNCHANGED <<db, channels_cache, products_cache>>
     ELSE /\ db' = [db EXCEPT !.channels = {c \in @ : c.id # runs[s].cid}]
          /\ Bust
  /\ UNCHANGED <<catIdx, arg, pc, ret, sessionVars, removed, logged_in,
                 manual_items, order_header>>

\* a run with a submit of Add Product reaches line 1785: ch_ids is loaded
ProductsTabLoad(s) ==
  /\ pc = "idle" /\ logged_in /\ runs[s] = Idle
  /\ db' = init_db(db)
  /\ channels_cache' = <<load_channels(db')>>
  /\ runs' = [runs EXCEPT ![s] = [at |-> "products_tab", ch_ids |-> channels_cache'[1]]]
  /\ UNCHANGED <<catIdx, callVars, sessionVars, removed, logged_in,
                 manual_items, order_header, products_cache>>

\* add_product with the channel id the form picked from ch_ids
AddProductSubmit(s, name, cid) ==
  /\ pc = "idle" /\ runs[s].at = "products_tab"
  /\ cid \in runs[s].ch_ids
  /\ db' = add_product(db, name, cid)
  /\ call' = "add_product"
  /\ IF db' = db THEN UNCHANGED <<channels_cache, products_cache>> ELSE Bust
  /\ runs' = [runs EXCEPT ![s] = Idle]
  /\ UNCHANGED <<catIdx, arg, pc, ret, sessionVars, removed, logged_in,
                 manual_items, order_header>>

\* the same run goes on to line 1821 when Save Changes was clicked: all_prods
SaveChangesLoad(s) ==
  /\ pc = "idle" /\ runs[s].at = "products_tab"
  /\ products_cache' = <<load_products(db)>>
  /\ runs' = [runs EXCEPT ![s] = [at |-> "save_changes",
                                  all_prods |-> products_cache'[1]]]
  /\ UNCHANGED <<catIdx, callVars, sessionVars, db, removed, logged_in,
                 manual_items, order_header, channels_cache>>

\* the loop of update_product over the rows, each with the channel_id of
\* all_prods, then bust()
SaveChangesClick(s) ==
  /\ pc = "idle" /\ runs[s].at = "save_changes"
  /\ db' = UpdateAll(db, runs[s].all_prods)
  /\ call' = "update_product"
  /\ Bust
  /\ runs' = [runs EXCEPT ![s] = Idle]
  /\ UNCHANGED <<catIdx, arg, pc, ret, sessionVars, removed, logged_in,
                 manual_items, order_header>>

\* the ttl of st.cache_data runs out
CacheExpire ==
  /\ pc = "idle"
  /\ channels_cache # NoCache \/ products_cache # NoCache
  /\ Bust
  /\ UNCHANGED <<catIdx, callVars, sessionVars, db, removed, logged_in,
                 manual_items, order_header, runs>>

InitChannels ==
  /\ catIdx = 1
  /\ call = "none" /\ arg = <<>> /\ pc = "idle" /\ ret = <<>>
  /\ SessionInit
  /\ AppSeeded

NextChannels ==
  \/ \E s \in Sessions, name \in NewChannelNames : AddChannelClick(s, name)
  \/ \E s \in Sessions : ChannelsTabLoad(s)
  \/ \E s \in Sessions, cid \in 1..MaxChannelId : DeleteChannelCount(s, cid)
  \/ \E s \in Sessions : DeleteChannelFinish(s)
  \/ \E s \in Sessions : ProductsTabLoad(s)
  \/ \E s \in Sessions, name \in NewProductNames, cid \in 1..MaxChannelId :
       AddProductSubmit(s, name, cid)
  \/ \E s \in Sessions : SaveChangesLoad(s)
  \/ \E s \in Sessions : SaveChangesClick(s)
  \/ CacheExpire

SpecChannels == InitChannels /\ [][NextChannels]_vars

\* ------------------------------------------------------------------------
\* Properties of the session
\* ------------------------------------------------------------------------
\* the derived values of an item
ItemTotals(item) == <<item.total_price, item.unit_cogs, item.total_cogs>>

\* C5: a run that applies the same quantity or unit price edit as the run
\* before leaves the item's total_price, unit_cogs and total_cogs and the
\* order's sum of item totals as the first application left them
C5_IdempotentEdit ==
  [][edit_repeats' /\ last_edit'.field \in {"qty", "unit_price"} =>
       LET e == last_edit'
       IN  /\ ItemTotals(parsed_orders'[e.oi].items[e.ii])
                = ItemTotals(parsed_orders[e.oi].items[e.ii])
           /\ SumTotalPrice(parsed_orders'[e.oi].items)
                = SumTotalPrice(parsed_orders[e.oi].items)]_vars

\* C5 witness: the quantity of a priced item set to 3 a second time
C5_Witness ==
  /\ edit_repeats /\ last_edit.field = "qty" /\ QtyChoices[last_edit.value] = Frac(3, 1)
  /\ LET item == parsed_orders[last_edit.oi].items[last_edit.ii]
     IN  /\ item.qty = Frac(3, 1)
         /\ item.unit_price > 0
         /\ item.total_price = 3 * item.unit_price

\* the rows of the orders table that came from the drafts of batch b
RowsOfBatch(b) == {i \in 1..Len(orders_table) : orders_table[i].src[1] = b}

C10_NoDraftTwice ==
  \A i, j \in 1..Len(orders_table) :
     i # j => orders_table[i].src # orders_table[j].src

\* C10 witness: the same text parsed and committed as two batches; rows of
\* equal content come from different drafts, and the session holds no drafts
C10_Witness ==
  /\ ~has_parsed /\ notice = "saved"
  /\ \E i, j \in 1..Len(orders_table) :
        /\ i < j
        /\ orders_table[i].order = orders_table[j].order
        /\ orders_table[i].src # orders_table[j].src

\* C11 (as claimed): once the session has been committed or discarded, no
\* later step takes it to another state
C11_TerminalStays ==
  [][ended # "none" => ended' = ended /\ ~has_parsed']_vars

\* C11 (amended): drafts are present exactly between a parse that found orders
\* and the commit or discard that ends the batch; a session without drafts
\* admits no edit, commit or discard, and only a parse that finds orders
\* takes it on, to a new batch of drafts
C11_EndedUntilParse ==
  [][/\ has_parsed => ended = "none"
     /\ ~has_parsed /\ batch_no > 0 => ended \in {"committed", "discarded"}
     /\ ~has_parsed /\ has_parsed' =>
           /\ last_parse'.clicked /\ notice' = "parsed"
           /\ batch_no' = batch_no + 1 /\ ended' = "none"
     /\ ~has_parsed =>
           /\ last_edit' = NoEdit /\ last_save' = NoSave
           /\ orders_table' = orders_table
           /\ ended' # ended => has_parsed'
     /\ has_parsed /\ ~has_parsed' =>
           /\ ended' \in {"committed", "discarded"}
           /\ ended' = "committed" <=> last_save' # NoSave /\ last_save'.fail_at = 0
           /\ ended' = "discarded" <=> orders_table' = orders_table]_vars

\* C11 witness: a batch was committed and a later parse stored a second batch
C11_Witness ==
  /\ has_parsed /\ notice = "parsed" /\ ended = "none"
  /\ batch_no = 2 /\ Len(orders_table) > 0

\* C12 (as claimed): parse_whatsapp_sales returns a list of drafts for every
\* text and catalog, whatever the quantities of the items; it never raises
C12_NeverRaises ==
  ParseDone => ~ret.raised

\* the Parse click of the run was on a text that is not blank and for which
\* parse_whatsapp_sales returned no draft
ParsedNothing(p) ==
  /\ p.clicked /\ Strip(p.text) # <<>>
  /\ ~SessionParses[catIdx][p.text].raised
  /\ SessionParses[catIdx][p.text].orders = <<>>

\* C13: a Parse click on a non-blank text without an order shows the warning
\* "No orders found", shows no success message and stores nothing: the
\* session keeps what it held, and never holds an empty list of drafts
C13_NoOrdersWarning ==
  [][ParsedNothing(last_parse') =>
       /\ notice' = "no_orders"
       /\ has_parsed' = has_parsed
       /\ parsed_orders' = parsed_orders
       /\ has_parsed' => parsed_orders' # <<>>]_vars

\* C13 witness: the warning shown in a session without drafts
C13_Witness ==
  /\ ParsedNothing(last_parse) /\ notice = "no_orders"
  /\ ~has_parsed /\ parsed_orders = <<>>

\* the quantity, prices and COGS of an item
ItemNumbers(item) ==
  <<item.qty, item.unit_price, item.total_price, item.unit_cogs, item.total_cogs>>

\* the run applied a change of the quantity or unit price widget of an item
QtyOrPriceEdit(e) == e.kind = "item" /\ e.field \in {"qty", "unit_price"}

\* C14: a run that changes the quantity or unit price of one item gives that
\* item the entered value, leaves its other input as it was and recomputes
\* its total_price and total_cogs from them; the numbers of every other item
\* of every order, and every total_amount, are as before the run
C14_EditOneItemOnly ==
  [][QtyOrPriceEdit(last_edit') =>
       LET e == last_edit'
           old == parsed_orders[e.oi].items[e.ii]
           new == parsed_orders'[e.oi].items[e.ii]
       IN  /\ Len(parsed_orders') = Len(parsed_orders)
           /\ \A oi \in 1..Len(parsed_orders) :
                 /\ parsed_orders'[oi].total_amount = parsed_orders[oi].total_amount
                 /\ Len(parsed_orders'[oi].items) = Len(parsed_orders[oi].items)
                 /\ \A ii \in 1..Len(parsed_orders[oi].items) :
                       <<oi, ii>> # <<e.oi, e.ii>> =>
                          ItemNumbers(parsed_orders'[oi].items[ii])
                            = ItemNumbers(parsed_orders[oi].items[ii])
           /\ new.qty = IF e.field = "qty" THEN QtyChoices[e.value] ELSE old.qty
           /\ new.unit_price
                 = IF e.field = "unit_price" THEN PriceChoices[e.value] ELSE old.unit_price
           /\ new.total_price = Round(new.qty.n * new.unit_price, new.qty.d)
           /\ new.total_cogs = Round(new.unit_cogs * new.qty.n, new.qty.d)]_vars

\* C14 witness: the quantity of one of two items of an order was changed; the
\* order no longer adds up to its total_amount and the other item kept its
\* share
C14_Witness ==
  /\ QtyOrPriceEdit(last_edit) /\ last_edit.field = "qty" /\ ~edit_repeats
  /\ LET order == parsed_orders[last_edit.oi]
     IN  /\ Len(order.items) = 2
         /\ order.items[last_edit.ii].qty = QtyChoices[last_edit.value]
         /\ order.items[3 - last_edit.ii].total_price > 0
         /\ Abs(SumTotalPrice(order.items) - order.total_amount) > 1

\* C15 (as claimed): after a product override the item's product_id,
\* category, cost_ratio and unit_price are those of the selected catalog
\* entry; its unit_price equals that product's default price
C15_OverrideReseeds ==
  last_edit.kind = "item" /\ last_edit.field = "product" /\ last_edit.value # 0 =>
     LET item == parsed_orders[last_edit.oi].items[last_edit.ii]
         row == Cat[last_edit.value]
     IN  /\ item.product_id = row.id
         /\ item.category = row.channel
         /\ item.cost_ratio = row.cost_ratio
         /\ item.unit_price = row.default_price

\* the value a header widget was set to
HeaderValue(e) ==
  IF e.field = "customer_name" THEN CustomerChoices[e.value]
  ELSE IF e.field = "payment_method" THEN PAYMENT_METHODS[e.value]
  ELSE ORDER_TYPES[e.value]

\* C16: a run that changes the customer, payment or type widget of an order
\* gives that field of that order the entered value and changes nothing
\* else: every other order, and the total_amount, the items and the other
\* fields of the edited order are as before, and every payment_method and
\* order_type is one of PAYMENT_METHODS and ORDER_TYPES
C16_HeaderEditOnly ==
  [][last_edit'.kind = "header" =>
       LET e == last_edit'
       IN  /\ Len(parsed_orders') = Len(parsed_orders)
           /\ \A oi \in 1..Len(parsed_orders) :
                 /\ oi # e.oi => parsed_orders'[oi] = parsed_orders[oi]
                 /\ parsed_orders'[oi].total_amount = parsed_orders[oi].total_amount
                 /\ parsed_orders'[oi].items = parsed_orders[oi].items
                 /\ IndexIn(PAYMENT_METHODS, parsed_orders'[oi].payment_method) # 0
                 /\ IndexIn(ORDER_TYPES, parsed_orders'[oi].order_type) # 0
           /\ parsed_orders'[e.oi] = [parsed_orders[e.oi] EXCEPT ![e.field] = HeaderValue(e)]]_vars

\* C16 witness: the payment of the second of two orders was set to Other; the
\* first order still has the default payment
C16_Witness ==
  /\ last_edit.kind = "header" /\ last_edit.field = "payment_method" /\ last_edit.oi = 2
  /\ Len(parsed_orders) = 2
  /\ parsed_orders[2].payment_method = "Other"
  /\ parsed_orders[1].payment_method = "Opay"
  /\ SumTotalPrice(parsed_orders[2].items) > 0

\* the absolute difference between total_amount and the item totals
Imbalance(order) == Abs(SumTotalPrice(order.items) - order.total_amount)

\* C17: the review loop shows the warning under a draft exactly when its item
\* totals differ from total_amount by more than 1, and the warning blocks
\* nothing: a Save that meets no store failure inserts every draft of the
\* batch, the unbalanced ones too, with the content it had on the screen
C17_ImbalanceAnnotates ==
  [][/\ has_parsed' /\ notice' # "exception" =>
           /\ Len(balance_notes') = Len(parsed_orders')
           /\ \A oi \in 1..Len(parsed_orders') :
                 balance_notes'[oi] = "warning" <=> Imbalance(parsed_orders'[oi]) > 1
     /\ last_save'.n > 0 /\ last_save'.fail_at = 0 =>
           /\ Len(orders_table') = Len(orders_table) + Len(parsed_orders)
           /\ \A k \in 1..Len(parsed_orders) :
                 /\ orders_table'[Len(orders_table) + k].order = parsed_orders[k]
                 /\ orders_table'[Len(orders_table) + k].src = <<batch_no, k>>]_vars

\* C17 witness: a draft whose items add up to more than its total_amount was
\* shown with the warning and is now a row of the orders table, next to a
\* balanced one of the same batch
C17_Witness ==
  /\ notice = "saved" /\ last_save.fail_at = 0
  /\ \E i, j \in 1..Len(orders_table) :
        /\ orders_table[i].src[1] = last_save.batch
        /\ orders_table[j].src[1] = last_save.batch
        /\ Imbalance(orders_table[i].order) > 1
        /\ SumTotalPrice(orders_table[i].order.items) > orders_table[i].order.total_amount
        /\ Imbalance(orders_table[j].order) = 0

\* the line names a payment method
HasPaymentWord(line) ==
  \E w \in {<<"c","a","s","h">>, <<"p","o","s">>, <<"o","p","a","y">>} : IsSubstr(w, Lower(line))

\* the line holds one of the summary keywords of line 536 other than opay
HasSummaryKeyword(line) ==
  \/ \E k \in 1..Len(FILTER_WORDS) : HasWord(Lower(line), FILTER_WORDS[k])
  \/ \E k \in 1..Len(FILTER_SUBSTRINGS) :
        FILTER_SUBSTRINGS[k] # <<"o","p","a","y">> /\ IsSubstr(FILTER_SUBSTRINGS[k], Lower(line))

\* the line is an order by its grammar: order_pattern matches it with a
\* numeric amount and it holds no summary keyword
IsOrderLine(line) ==
  /\ ~HasSummaryKeyword(line)
  /\ OrderMatch(line).matched
  /\ RemoveChar(OrderMatch(line).g2, ",") # <<>>

\* C18 (as claimed): an order line that contains cash yields one draft with
\* payment Cash, otherwise one that contains pos yields POS, otherwise one
\* that contains opay yields Opay
C18_PaymentHint ==
  ParseDone /\ ~ret.raised =>
     LET lines == SplitOn(Strip(arg), {"\n"})
     IN  Len(lines) = 1 /\ IsOrderLine(Strip(lines[1])) /\ HasPaymentWord(lines[1]) =>
            /\ Len(ret.orders) = 1
            /\ ret.orders[1].payment_method
                  = IF IsSubstr(<<"c","a","s","h">>, Lower(lines[1])) THEN "Cash"
                    ELSE IF IsSubstr(<<"p","o","s">>, Lower(lines[1])) THEN "POS"
                    ELSE "Opay"

\* the fields a reader of the slash form sees in the slash lines: customer
\* Ada, amount 4,300, items (1 coffee)
SlashLines == {SLASH_LINE, SLASH_NO_PHONE_LINE}

\* C19 (as claimed): a line customer / phone / #amount / (items) / channel,
\* with or without the phone and the channel, yields one draft whose
\* customer_name is the customer, whose total_amount is the amount after #
\* (never the phone number) and whose items are those of the list in
\* parentheses
C19_SlashGrammar ==
  ParseDone /\ arg \in SlashLines =>
     /\ ~ret.raised /\ Len(ret.orders) = 1
     /\ ret.orders[1].customer_name = <<"A","d","a">>
     /\ ret.orders[1].total_amount = 4300
     /\ [i \in 1..Len(ret.orders[1].items) |->
            <<ret.orders[1].items[i].product_name, ret.orders[1].items[i].qty>>]
          = [i \in 1..1 |->
               <<parse_items(Cat, <<"1"," ","c","o","f","f","e","e">>)[i].product_name,
                 Frac(1, 1)>>]

\* every item stub of the drafts has a positive quantity, a unit price that
\* is not negative and one of the three confidence tags
StubsInRange(orders) ==
  \A oi \in 1..Len(orders) : \A ii \in 1..Len(orders[oi].items) :
     LET item == orders[oi].items[ii]
     IN  /\ item.qty.n > 0
         /\ item.unit_price >= 0
         /\ item.confidence \in {"high", "medium", "low"}

\* C20 (as claimed): in the drafts parse_whatsapp_sales returns and in the
\* drafts of the session, after any review edits, every item stub has a
\* quantity greater than 0, a unit_price of at least 0 and a confidence of
\* high, medium or low
C20_StubsInRange ==
  /\ ParseDone /\ ~ret.raised => StubsInRange(ret.orders)
  /\ StubsInRange(parsed_orders)

\* the customer and the amount of each draft
DraftKeys(orders) ==
  [k \in 1..Len(orders) |-> <<orders[k].customer_name, orders[k].total_amount>>]

\* the Parse click of the run called parse_whatsapp_sales and it returned
ParseReturned(p) ==
  p.clicked /\ Strip(p.text) # <<>> /\ ~SessionParses[catIdx][p.text].raised

\* C21 (as claimed): after a parse invocation the session holds the drafts of
\* that invocation and no others, also when it found none
C21_HoldsLastParse ==
  ParseReturned(last_parse) =>
     /\ DraftKeys(parsed_orders) = DraftKeys(SessionParses[catIdx][last_parse.text].orders)
     /\ has_parsed <=> SessionParses[catIdx][last_parse.text].orders # <<>>

\* lines of the dash/hash form with the customer and the amount a reader
\* sees in them
DashLines ==
  {[line |-> JANET_LINE, customer |-> <<"J","a","n","e","t"," ","J","o","h","n","s","o","n">>,
    amount |-> 9680],
   [line |-> DEBORAH_LINE, customer |-> <<"D","e","b","o","r","a","h">>, amount |-> 13440],
   [line |-> DIGIT_CUSTOMER_LINE, customer |-> <<"F","l","a","t"," ","1","2">>, amount |-> 4300]}

\* C22 (as claimed): a line of the dash/hash form yields a draft whose
\* total_amount is the number after # without its commas and whose
\* customer_name is the text between the marker and the separator, digits
\* included
C22_AmountAfterHash ==
  ParseDone =>
     \A d \in DashLines :
        arg = d.line =>
           /\ ~ret.raised /\ Len(ret.orders) = 1
           /\ ret.orders[1].total_amount = d.amount
           /\ ret.orders[1].customer_name = d.customer

\* the line starts with a marker and holds # followed by a digit
MarkedWithAmount(line) ==
  /\ line # <<>> /\ line[1] \in MarkerClass
  /\ \E i \in 1..(Len(line) - 1) : line[i] = "#" /\ line[i + 1] \in DigitSet

\* C23 (as claimed): a line that starts with a marker, holds #digits and no
\* filter keyword yields exactly one draft, whatever its customer name holds
C23_NoOrderLineDropped ==
  ParseDone /\ ~ret.raised =>
     LET lines == SplitOn(Strip(arg), {"\n"})
     IN  Len(lines) = 1 /\ MarkedWithAmount(Strip(lines[1])) /\ ~IsFiltered(Strip(lines[1])) =>
            Len(ret.orders) = 1

\* C24 (as claimed): the documented line with (1 coffee, take out) parses to
\* a Take-out draft whose items are the one coffee, the keyword phrase
\* giving no item stub, and whose item totals add up to total_amount
C24_TakeOutIsNoItem ==
  ParseDone /\ arg = TEMITOPE_LINE =>
     /\ ~ret.raised /\ Len(ret.orders) = 1
     /\ ret.orders[1].order_type = "Take-out"
     /\ Len(ret.orders[1].items) = 1
     /\ ret.orders[1].items[1].product_id = "p08"
     /\ Abs(SumTotalPrice(ret.orders[1].items) - ret.orders[1].total_amount) <= 1

\* C25 (as claimed): for an alias keyword k whose product is in the catalog
\* and a positive integer n, parse_items turns the phrase "n k" into one stub
\* of quantity n for the product of k, with confidence high and the
\* category of the alias
C25_QuantityThenAlias ==
  call = "parse_items" /\ pc = "done" =>
     \A n \in 1..Len(AliasQuantities), k \in 1..Len(PRODUCT_ALIASES) :
        arg = AliasPhrase(n, k) /\ IndexOfId(Cat, PRODUCT_ALIASES[k].pid) # 0 =>
           /\ Len(ret) = 1
           /\ ret[1].qty = ParseDecimal(AliasQuantities[n])
           /\ ret[1].stub.product_id = PRODUCT_ALIASES[k].pid
           /\ ret[1].stub.confidence = "high"
           /\ ret[1].stub.category = PRODUCT_ALIASES[k].cat

\* the derived values of the items of a draft are those of the draft the
\* parser returned
SameTotals(shown, returned) ==
  /\ Len(shown.items) = Len(returned.items)
  /\ \A ii \in 1..Len(shown.items) :
        ItemTotals(shown.items[ii]) = ItemTotals(returned.items[ii])

\* C26 (as claimed): in a session without edits the drafts on the review
\* screen have the total_price, unit_cogs and total_cogs that
\* parse_whatsapp_sales computed, and so has every row saved
C26_ReviewKeepsTotals ==
  /\ last_parse.clicked /\ notice = "parsed" =>
        \A oi \in 1..Len(parsed_orders) :
           SameTotals(parsed_orders[oi], SessionParses[catIdx][last_parse.text].orders[oi])
  /\ \A i \in 1..Len(orders_table) :
        \E t \in UneditedTexts :
           /\ ~SessionParses[catIdx][t].raised
           /\ \E k \in 1..Len(SessionParses[catIdx][t].orders) :
                 SameTotals(orders_table[i].order, SessionParses[catIdx][t].orders[k])

\* C27 (as claimed): two lines that differ only in the text of the item list
\* are both skipped or both parsed, and get the same payment_method; here
\* every line is compared with the line whose item list is "coffee"
C27_ItemsDoNotDecide ==
  ParseDone /\ ~ret.raised =>
     \A a \in 1..Len(AmountTexts), it \in ItemTexts \cup KeywordItemTexts :
        arg = OrderLine(Customers[1], Separators[1], AmountTexts[a], it) =>
           LET other == parse_whatsapp_sales(Cat,
                          OrderLine(Customers[1], Separators[1], AmountTexts[a], Phrases[2]))
           IN  /\ Len(ret.orders) = Len(other.orders)
               /\ ret.orders # <<>> =>
                     ret.orders[1].payment_method = other.orders[1].payment_method


\* C28: once the database is initialised, a run inserts into orders and
\* transactions only the row a user action of that run saves, and a content
\* the user deleted and has not saved since is in no row of the store
C28_InitDbInsertsNothing ==
  [][db.ready =>
       /\ db'.orders \ db.orders \subseteq
            (IF call' = "save_single_order"
             THEN {OrderRow(db'.seq.orders, arg')} ELSE {})
       /\ db'.transactions \ db.transactions \subseteq
            (IF call' = "add_expense"
             THEN {ExpenseRow(db'.seq.transactions, arg')} ELSE {})
       /\ \A r \in db'.orders : OrderContent(r) \notin removed'.orders
       /\ \A r \in db'.transactions :
            ExpenseContent(r) \notin removed'.transactions]_vars


\* C29: whenever the session is not logged in, it holds no parsed drafts, no
\* manual-entry items and no order header
C29_LoggedOutHoldsNothing ==
  ~logged_in => ~has_parsed /\ manual_items = <<>> /\ ~order_header.set


\* C30: under every interleaving of delete_channel with add_product and
\* update_product of concurrent sessions, every product's channel_id is the
\* id of a row of channels
C30_NoMissingChannel ==
  \A p \in db.products : \E c \in db.channels : c.id = p.channel_id

============================================================================
